---------------------------- MODULE Spec2Model ----------------------------
(***************************************************************************)
(* A model of the LLM fallback manager, the provider registries and the    *)
(* TTL cache of the email agent.                                           *)
(*                                                                         *)
(*   LLMManager          src/AI_AGENTS/agents/llm_manager.py               *)
(*   AIProviderManager   src/AI_AGENTS/agents/ai_provider_manager.py       *)
(*   EmailProcessingAgent src/AI_AGENTS/agents/langchain_agents.py         *)
(*   CacheService        src/AI_AGENTS/services/cache_service.py           *)
(*                                                                         *)
(* Every handler is one action.  The environment (credentials, whether a   *)
(* client constructor raises, what a provider answers, how far the clock   *)
(* moves) is chosen nondeterministically.  The variable `call` records the *)
(* latest handler call: its arguments, the provider calls it made, and     *)
(* what it returned.                                                       *)
(***************************************************************************)
EXTENDS Integers, Sequences, FiniteSets, TLC

VARIABLES
    api_key,        \* settings.<provider>_api_key: "unset" | "placeholder" | "key"
    ctor_ok,        \* whether the provider's client constructor returns (TRUE) or raises
    llm_phase,      \* LLMManager(): "new" | "ready" | "failed" (the constructor raised)
    models,         \* LLMManager.models: the keys of the dict, in insertion order
    model_order,    \* LLMManager.model_order
    apm_phase,      \* AIProviderManager(): "new" | "ready" | "failed"
    providers,      \* AIProviderManager.providers: the keys of the dict, in insertion order
    epa_phase,      \* EmailProcessingAgent(): "new" | "ready" | "failed"
    epa_provider,   \* EmailProcessingAgent.provider
    call,           \* the latest LLM or registry handler call and its result
    now,            \* datetime.now(), in ticks
    cache,          \* CacheService.cache: the dict's items, in insertion order
    cleanup_started,\* CacheService._cleanup_task_started
    cache_call,     \* the latest CacheService call and its result
    last_set,       \* per key in the dict, the arguments and time of the set that stored it
    email,          \* the inbound email the handlers are given
    intent_call,    \* the latest intent classification and its result
    existing_leads, \* CRMService: the records of data/existing_leads.json
    new_leads,      \* CRMService: the records of data/new_leads.json
    outbox,         \* CRMService: the entries of data/outbox.json
    crm_call,       \* the latest CRMService call and its result
    pipeline,       \* per EmailAgent.process_email coroutine, its position and locals
    reply_call,     \* the latest ReplyGeneratorAgent.generate_reply call and its result
    customers,      \* email workflow: the records of data/crm/customers.json
    validation_call,\* the latest ValidationAgent.validate_email call and its result
    workflow,       \* one EmailWorkflow.process_email coroutine: its position and locals
    batch           \* one AIProviderManager.batch_process_emails call: its tasks and results

llmVars == <<llm_phase, models, model_order>>
apmVars == <<apm_phase, providers, epa_phase, epa_provider>>
envVars == <<api_key, ctor_ok>>
cacheVars == <<now, cache, cleanup_started, cache_call, last_set>>
workflowVars == <<customers, validation_call, workflow, batch>>
storeVars == <<existing_leads, new_leads, outbox, crm_call, pipeline, reply_call, workflowVars>>
mailVars == <<email, intent_call, storeVars>>
vars == <<api_key, ctor_ok, llm_phase, models, model_order,
          apm_phase, providers, epa_phase, epa_provider, call,
          now, cache, cleanup_started, cache_call, last_set,
          email, intent_call,
          existing_leads, new_leads, outbox, crm_call, pipeline, reply_call,
          customers, validation_call, workflow, batch>>

-----------------------------------------------------------------------------
(* Values *)

\* Python's None.
None == "None"

\* A provider call that raises.
RAISE == "RAISE"

\* The four providers, in the order _initialize_models tries them.
PreferenceOrder == <<"openai", "groq", "google", "anthropic">>

Range(s) == {s[i] : i \in 1..Len(s)}

Providers == Range(PreferenceOrder)

\* An identifier no registry ever holds.
UnknownModel == "mistral"

\* The values a caller passes as preferred_model.
Preferred == Providers \cup {None, UnknownModel}

\* What a provider's ainvoke yields: response.content, or RAISE.
GeneratedText == "generated text"

TextOutcomes == {RAISE, GeneratedText}

NameOutcomes == {RAISE, "Jane Doe", " Jane Doe ", "Unknown", ""}

\* generate_text's fixed apology and error message.
ApologyText == "I apologize, but I'm unable to generate a response at this time. Please try again later."

AllFailedError == "All LLM models failed to generate response"

KeyStates == {"unset", "placeholder", "key"}

NoResult == [success |-> FALSE, response |-> None, model_used |-> None, error |-> None]

\* No handler has been called yet.  pc: "idle" | "trying" (inside generate_text's
\* loop, before candidate `pos`) | "done".
NoCall == [op |-> "none", comp |-> "none", pc |-> "idle", preferred |-> None,
           sender_name |-> None, models_to_try |-> <<>>, pos |-> 0, invoked |-> <<>>,
           raised_by |-> <<>>, result |-> NoResult, ret |-> None, list |-> <<>>,
           raised |-> FALSE]

-----------------------------------------------------------------------------
(* LLMManager *)

\* `settings.x_api_key and settings.x_api_key != "your_x_key"`
KeyUsable(p) == api_key[p] # "unset" /\ api_key[p] # "placeholder"

\* (variant: model_order is appended before the constructor runs)
MutInitializeOneOrderFirst(reg, p) ==
    IF KeyUsable(p)
    THEN IF ctor_ok[p]
         THEN [models |-> Append(reg.models, p), model_order |-> Append(reg.model_order, p)]
         ELSE [models |-> reg.models, model_order |-> Append(reg.model_order, p)]
    ELSE reg

\* One provider's block of _initialize_models: the dict entry is assigned only
\* if the constructor returned, and model_order is appended right after.
InitializeOne(reg, p) ==
    IF KeyUsable(p)
    THEN IF ctor_ok[p]
         THEN [models |-> Append(reg.models, p), model_order |-> Append(reg.model_order, p)]
         ELSE reg
    ELSE reg

RECURSIVE InitializeFrom(_, _)
InitializeFrom(reg, i) ==
    IF i > Len(PreferenceOrder) THEN reg
    ELSE InitializeFrom(InitializeOne(reg, PreferenceOrder[i]), i + 1)

\* LLMManager.__init__: the registry starts empty, _initialize_models fills it
\* and raises when it is still empty.
InitializeModels ==
    /\ llm_phase = "new"
    /\ LET reg == InitializeFrom([models |-> <<>>, model_order |-> <<>>], 1)
       IN  /\ models' = reg.models
           /\ model_order' = reg.model_order
           /\ llm_phase' = IF reg.models = <<>> THEN "failed" ELSE "ready"
           /\ call' = [NoCall EXCEPT !.op = "LLMManager", !.comp = "llm", !.pc = "done",
                                     !.raised = (reg.models = <<>>)]
    /\ UNCHANGED <<cacheVars, envVars, mailVars, apmVars>>

\* The order generate_text tries the models in.
RECURSIVE AddOthers(_, _, _)
AddOthers(try, order, i) ==
    IF i > Len(order) THEN try
    ELSE AddOthers(IF order[i] \in Range(try) THEN try ELSE Append(try, order[i]), order, i + 1)

\* (variant: the preferred model is put first without looking it up)
MutModelsToTryNoLookup(preferred) ==
    AddOthers(IF preferred # None THEN <<preferred>> ELSE <<>>, model_order, 1)

ModelsToTry(preferred) ==
    AddOthers(IF preferred # None /\ preferred \in Range(models) THEN <<preferred>> ELSE <<>>,
              model_order, 1)

\* The ops that run generate_text's loop, and what a provider may answer to each.
LLMOps == {"generate_text", "generate_email_reply", "extract_sender_name"}

Outcomes(op) == IF op = "extract_sender_name" THEN NameOutcomes ELSE TextOutcomes

SenderNames == {"Jane Doe", "there"}

\* Only generate_email_reply takes a sender_name.
SenderNamesOf(op) == IF op = "generate_email_reply" THEN SenderNames ELSE {None}

\* f"Thank you for your email, {sender_name}. I'll get back to you soon."
ThankYouReply(sender_name) ==
    IF sender_name = "Jane Doe"
    THEN "Thank you for your email, Jane Doe. I'll get back to you soon."
    ELSE "Thank you for your email, there. I'll get back to you soon."

\* str.strip() on the answers a provider gives here.
Strip(text) == IF text = " Jane Doe " THEN "Jane Doe" ELSE text

\* What the wrapper around generate_text returns for generate_text's result:
\* generate_text returns the envelope itself (its text is recorded), 
\* generate_email_reply the response or the thank-you reply, extract_sender_name
\* the stripped name, or None for "", "Unknown" and a failure.
WrapperReturn(op, sender_name, result) ==
    CASE op = "generate_email_reply" ->
            IF result.success THEN result.response ELSE ThankYouReply(sender_name)
      [] op = "extract_sender_name" ->
            IF result.success
            THEN LET name == Strip(result.response)
                 IN  IF name # "" /\ name # "Unknown" THEN name ELSE None
            ELSE None
      [] OTHER -> result.response

\* generate_text up to its first await: the try-order is built.
BeginCall(op, preferred, sender_name) ==
    /\ llm_phase = "ready"
    /\ call.pc # "trying"
    /\ call' = [NoCall EXCEPT !.op = op, !.comp = "llm", !.pc = "trying",
                              !.preferred = preferred, !.sender_name = sender_name,
                              !.models_to_try = ModelsToTry(preferred), !.pos = 1]
    /\ UNCHANGED <<cacheVars, envVars, mailVars, llmVars, apmVars>>

\* (variant: the loop goes on after a provider answered)
MutOnSuccessKeepTrying(c, name, content) ==
    LET result == [success |-> TRUE, response |-> content, model_used |-> name, error |-> None]
    IN  [c EXCEPT !.pos = c.pos + 1, !.invoked = Append(c.invoked, name),
                  !.result = result, !.ret = WrapperReturn(c.op, c.sender_name, result)]

\* `return result` after a provider answered: the loop ends here.
OnSuccess(c, name, content) ==
    LET result == [success |-> TRUE, response |-> content, model_used |-> name, error |-> None]
    IN  [c EXCEPT !.pc = "done", !.invoked = Append(c.invoked, name),
                  !.result = result, !.ret = WrapperReturn(c.op, c.sender_name, result)]

\* `except Exception ... continue` after a provider call raised.
OnFailure(c, name) ==
    [c EXCEPT !.pos = c.pos + 1, !.invoked = Append(c.invoked, name),
              !.raised_by = Append(c.raised_by, name)]

\* (variant: exhausting the candidates raises instead of returning)
MutOnExhaustedRaise(c) ==
    [c EXCEPT !.pc = "done", !.raised = TRUE]

\* The code after the loop: every candidate failed (or there was none).
OnExhausted(c) ==
    LET result == [success |-> FALSE, response |-> ApologyText,
                   model_used |-> None, error |-> AllFailedError]
    IN  [c EXCEPT !.pc = "done", !.result = result,
                  !.ret = WrapperReturn(c.op, c.sender_name, result)]

\* (variant: a provider that raised is dropped from model_order)
MutTryModelDropFailed ==
    /\ call.pc = "trying"
    /\ call.comp = "llm"
    /\ call.pos <= Len(call.models_to_try)
    /\ LET name == call.models_to_try[call.pos]
       IN  \E outcome \in Outcomes(call.op) :
               /\ call' = IF outcome = RAISE THEN OnFailure(call, name)
                          ELSE OnSuccess(call, name, outcome)
               /\ model_order' = IF outcome = RAISE
                                 THEN SelectSeq(model_order, LAMBDA m : m # name)
                                 ELSE model_order
    /\ UNCHANGED <<cacheVars, envVars, mailVars, llm_phase, models, apmVars>>

\* One iteration of generate_text's loop: self.models[model_name] (a KeyError
\* is caught like any failure, and no call was made), then the awaited ainvoke,
\* which returns a text or raises.
TryModel ==
    /\ call.pc = "trying"
    /\ call.comp = "llm"
    /\ call.pos <= Len(call.models_to_try)
    /\ LET name == call.models_to_try[call.pos]
       IN  IF name \notin Range(models)
           THEN call' = [call EXCEPT !.pos = call.pos + 1]
           ELSE \E outcome \in Outcomes(call.op) :
                    call' = IF outcome = RAISE THEN OnFailure(call, name)
                            ELSE OnSuccess(call, name, outcome)
    /\ UNCHANGED <<cacheVars, envVars, mailVars, llmVars, apmVars>>

\* The loop is over without a return.
AllFailed ==
    /\ call.pc = "trying"
    /\ call.comp = "llm"
    /\ call.pos > Len(call.models_to_try)
    /\ call' = OnExhausted(call)
    /\ UNCHANGED <<cacheVars, envVars, mailVars, llmVars, apmVars>>

\* LLMManager.get_available_models: list(self.models.keys())
get_available_models ==
    /\ llm_phase = "ready"
    /\ call.pc # "trying"
    /\ call' = [NoCall EXCEPT !.op = "get_available_models", !.comp = "llm",
                              !.pc = "done", !.list = models]
    /\ UNCHANGED <<cacheVars, envVars, mailVars, llmVars, apmVars>>

\* LLMManager.get_model_info: its "model_order" entry (the "available_models"
\* entry is get_available_models' list)
get_model_info ==
    /\ llm_phase = "ready"
    /\ call.pc # "trying"
    /\ call' = [NoCall EXCEPT !.op = "get_model_info", !.comp = "llm",
                              !.pc = "done", !.list = model_order,
                              !.pos = Len(models)]
    /\ UNCHANGED <<cacheVars, envVars, mailVars, llmVars, apmVars>>

-----------------------------------------------------------------------------
(* AIProviderManager and EmailProcessingAgent *)

\* settings.is_provider_available: validate_ai_providers keeps every provider
\* whose api_key is truthy (the placeholder is).
is_provider_available(p) == api_key[p] # "unset"

\* _initialize_providers from provider i on: no try around the constructors, so
\* one that raises ends the whole constructor.  Returns the keys registered, or
\* RAISE.
RECURSIVE InitializeProvidersFrom(_, _)
InitializeProvidersFrom(reg, i) ==
    IF i > Len(PreferenceOrder) THEN reg
    ELSE LET p == PreferenceOrder[i]
         IN  IF ~is_provider_available(p) THEN InitializeProvidersFrom(reg, i + 1)
             ELSE IF ctor_ok[p] THEN InitializeProvidersFrom(Append(reg, p), i + 1)
             ELSE RAISE

\* AIProviderManager.__init__: nothing checks that a provider registered.
InitializeProviders ==
    /\ apm_phase = "new"
    /\ call.pc # "trying"
    /\ LET reg == InitializeProvidersFrom(<<>>, 1)
       IN  /\ providers' = IF reg = RAISE THEN <<>> ELSE reg
           /\ apm_phase' = IF reg = RAISE THEN "failed" ELSE "ready"
           /\ call' = [NoCall EXCEPT !.op = "AIProviderManager", !.comp = "apm",
                                     !.pc = "done", !.raised = (reg = RAISE)]
    /\ UNCHANGED <<cacheVars, envVars, mailVars, llmVars, epa_phase, epa_provider>>

\* EmailProcessingAgent.__init__(provider): the requested provider, else the
\* first registered one, else ValueError.
EmailProcessingAgentInit(provider) ==
    /\ apm_phase = "ready"
    /\ epa_phase = "new"
    /\ call.pc # "trying"
    /\ LET found == provider \in Range(providers)
           raises == ~found /\ providers = <<>>
       IN  /\ epa_phase' = IF raises THEN "failed" ELSE "ready"
           /\ epa_provider' = IF found THEN provider
                              ELSE IF raises THEN None ELSE providers[1]
           /\ call' = [NoCall EXCEPT !.op = "EmailProcessingAgent", !.comp = "epa",
                                     !.pc = "done", !.preferred = provider,
                                     !.raised = raises]
    /\ UNCHANGED <<cacheVars, envVars, mailVars, llmVars, apm_phase, providers>>

\* AIProviderManager.generate_response: raises when the provider is not
\* registered, else what the provider call (or the cache around it) does.
GenerateResponse(provider, outcome) ==
    IF provider \notin Range(providers) THEN RAISE ELSE outcome

\* AIProviderManager.process_single_email: extract_sender_name maps a raise to
\* None, generate_reply maps a raise to the thank-you reply, and the result says
\* success.  `invoked` lists the provider calls made.
process_single_email(provider, name_outcome, reply_outcome) ==
    /\ apm_phase = "ready"
    /\ call.pc # "trying"
    /\ LET name_resp == GenerateResponse(provider, name_outcome)
           sender_name == IF name_resp = RAISE THEN None
                          ELSE IF Strip(name_resp) # "" /\ Strip(name_resp) # "Unknown"
                               THEN Strip(name_resp) ELSE None
           reply_resp == GenerateResponse(provider, reply_outcome)
           reply == IF reply_resp = RAISE
                    THEN ThankYouReply(IF sender_name = None THEN "there" ELSE sender_name)
                    ELSE reply_resp
       IN  call' = [NoCall EXCEPT !.op = "process_single_email", !.comp = "apm",
                                  !.pc = "done", !.preferred = provider,
                                  !.sender_name = sender_name,
                                  !.invoked = IF provider \in Range(providers)
                                              THEN <<provider, provider>> ELSE <<>>,
                                  !.result = [success |-> TRUE, response |-> reply,
                                              model_used |-> provider, error |-> None],
                                  !.ret = reply]
    /\ UNCHANGED <<cacheVars, envVars, mailVars, llmVars, apmVars>>

-----------------------------------------------------------------------------
(* CacheService *)

\* CacheService.max_size: the dict holds this many entries (1000 in the
\* source).
max_size == 2

\* CacheService.default_ttl, in seconds.
default_ttl == 3600

\* Clock ticks in a second: datetime.now() is finer than the whole seconds a ttl
\* counts.
TicksPerSecond == 2

\* The clock stops here.
MaxTime == 3

\* The clock stops here where no entry expires.
MaxTimeLRU == 2

\* A get of an entry read this often is not taken.
MaxAccess == 1

\* The keys callers use: one more than the dict holds.
KeyNames == <<"k1", "k2", "k3", "k4">>

Keys == {KeyNames[i] : i \in 1..(max_size + 1)}

Values == {"v1", "v2"}

\* `ttl=None`, the argument left out: set then takes default_ttl.
NoTTL == -1

\* The ttl arguments, in seconds.
TTLs == {0, 1, NoTTL}

\* The ttl set works with: `if ttl is None: ttl = self.default_ttl`
EffectiveTTL(ttl) == IF ttl = NoTTL THEN default_ttl ELSE ttl

\* A key never stored.
NeverSet == [at |-> -1, ttl |-> 0, value |-> None]

\* Python's True and False as returned values.
PyTrue == "True"

PyFalse == "False"

\* No entry.
NoEntry == [key |-> None, value |-> None, created_at |-> -1, expires_at |-> -1,
            access_count |-> 0, last_accessed |-> -1]

\* No CacheService call yet.  Beside the call's op, key and returned value:
\* after_set (the call before was a set of the same key), found (the key's
\* entry when the call began: "absent", "expired" or "live"), size_before (the
\* dict's length then) and evicted (the other key's entry a set removed).
NoCacheCall == [op |-> "none", key |-> None, ret |-> None, factory_calls |-> 0,
                after_set |-> FALSE, found |-> "absent", size_before |-> 0,
                evicted |-> NoEntry]

\* `key in self.cache`
Has(c, key) == \E i \in 1..Len(c) : c[i].key = key

\* `self.cache[key]`
EntryOf(c, key) == c[CHOOSE i \in 1..Len(c) : c[i].key = key]

\* `del self.cache[key]`
Del(c, key) == SelectSeq(c, LAMBDA e : e.key # key)

\* `self.cache[key] = entry`: a key already in the dict keeps its place.
Put(c, entry) ==
    IF Has(c, entry.key)
    THEN [i \in 1..Len(c) |-> IF c[i].key = entry.key THEN entry ELSE c[i]]
    ELSE Append(c, entry)

\* CacheEntry.__init__
CacheEntry(key, value, ttl) ==
    [key |-> key, value |-> value, created_at |-> now,
     expires_at |-> now + ttl * TicksPerSecond, access_count |-> 0,
     last_accessed |-> now]

\* (variant: an entry is expired from its expiry time on)
MutExpiredAtExpiry(e) == now >= e.expires_at

\* CacheEntry.is_expired
is_expired(e) == now > e.expires_at

\* (variant: an access does not count)
MutAccessNoCount(e) == [e EXCEPT !.last_accessed = now]

\* CacheEntry.access
access(e) == [e EXCEPT !.access_count = e.access_count + 1, !.last_accessed = now]

\* (variant: the entry inserted first is evicted)
MutEvictFirstInserted(c) == IF c = <<>> THEN c ELSE Tail(c)

\* (variant: nothing is evicted)
MutEvictNothing(c) == c

\* CacheService._evict_oldest: min() over the keys returns the first key, in
\* insertion order, whose last_accessed is the smallest.
EvictOldest(c) ==
    IF c = <<>> THEN c
    ELSE LET i == CHOOSE i \in 1..Len(c) :
                      /\ \A j \in 1..Len(c) : c[i].last_accessed <= c[j].last_accessed
                      /\ \A j \in 1..(i - 1) : c[j].last_accessed > c[i].last_accessed
         IN  Del(c, c[i].key)

\* (variant: a key already stored keeps its old entry)
MutCacheSetKeepOld(c, key, value, ttl) ==
    IF Has(c, key) THEN c
    ELSE Put(IF Len(c) >= max_size THEN EvictOldest(c) ELSE c,
             CacheEntry(key, value, EffectiveTTL(ttl)))

\* The dict after CacheService.set (which returns True).
CacheSet(c, key, value, ttl) ==
    Put(IF Len(c) >= max_size THEN EvictOldest(c) ELSE c,
        CacheEntry(key, value, EffectiveTTL(ttl)))

\* The dict after CacheService.get, and what it returns.
CacheGet(c, key) ==
    IF ~Has(c, key) THEN [cache |-> c, ret |-> None]
    ELSE IF is_expired(EntryOf(c, key)) THEN [cache |-> Del(c, key), ret |-> None]
    ELSE [cache |-> Put(c, access(EntryOf(c, key))), ret |-> EntryOf(c, key).value]

\* What a call that leaves the dict as c records in cache_call.
Record(op, key, ret, factory_calls, c) ==
    cache_call' =
        [op |-> op, key |-> key, ret |-> ret, factory_calls |-> factory_calls,
         after_set |-> (cache_call.op = "set" /\ cache_call.key = key),
         found |-> IF ~Has(cache, key) THEN "absent"
                   ELSE IF now > EntryOf(cache, key).expires_at THEN "expired" ELSE "live",
         size_before |-> Len(cache),
         evicted |-> IF op \in {"set", "get_or_set"}
                        /\ \E i \in 1..Len(cache) : cache[i].key # key /\ ~Has(c, cache[i].key)
                     THEN cache[CHOOSE i \in 1..Len(cache) :
                                    cache[i].key # key /\ ~Has(c, cache[i].key)]
                     ELSE NoEntry]

\* last_set once the dict is c: a key that left the dict is forgotten, the key
\* stored by this call (if any) is noted with its arguments.
Noted(c, key, value, ttl) ==
    [k \in Keys |-> IF ~Has(c, k) THEN NeverSet
                    ELSE IF k = key THEN [at |-> now, ttl |-> EffectiveTTL(ttl), value |-> value]
                    ELSE last_set[k]]

Kept(c) == [k \in Keys |-> IF Has(c, k) THEN last_set[k] ELSE NeverSet]

\* CacheService.get
get(key) ==
    /\ Has(cache, key) /\ ~is_expired(EntryOf(cache, key))
          => EntryOf(cache, key).access_count < MaxAccess
    /\ LET r == CacheGet(cache, key)
       IN  /\ cache' = r.cache
           /\ last_set' = Kept(r.cache)
           /\ Record("get", key, r.ret, 0, r.cache)
    /\ cleanup_started' = TRUE
    /\ UNCHANGED <<now, envVars, mailVars, llmVars, apmVars, call>>

\* CacheService.set
set(key, value, ttl) ==
    /\ cache' = CacheSet(cache, key, value, ttl)
    /\ last_set' = Noted(CacheSet(cache, key, value, ttl), key, value, ttl)
    /\ Record("set", key, PyTrue, 0, CacheSet(cache, key, value, ttl))
    /\ UNCHANGED <<now, cleanup_started, envVars, mailVars, llmVars, apmVars, call>>

\* CacheService.delete
delete(key) ==
    /\ cache' = Del(cache, key)
    /\ last_set' = Kept(Del(cache, key))
    /\ Record("delete", key, IF Has(cache, key) THEN PyTrue ELSE PyFalse, 0, Del(cache, key))
    /\ UNCHANGED <<now, cleanup_started, envVars, mailVars, llmVars, apmVars, call>>

\* CacheService.clear
clear ==
    /\ cache' = <<>>
    /\ last_set' = Kept(<<>>)
    /\ Record("clear", None, PyTrue, 0, <<>>)
    /\ UNCHANGED <<now, cleanup_started, envVars, mailVars, llmVars, apmVars, call>>

\* CacheService.exists
exists(key) ==
    /\ LET live == Has(cache, key) /\ ~is_expired(EntryOf(cache, key))
           c == IF Has(cache, key) /\ ~live THEN Del(cache, key) ELSE cache
       IN  /\ cache' = c
           /\ last_set' = Kept(c)
           /\ Record("exists", key, IF live THEN PyTrue ELSE PyFalse, 0, c)
    /\ UNCHANGED <<now, cleanup_started, envVars, mailVars, llmVars, apmVars, call>>

\* CacheService.get_or_set: the cached value when get finds one; else the
\* factory's value `first`, stored and returned; when the factory raises, the
\* except branch calls it once more and returns (or raises) what that call
\* gives, `second`, storing nothing.
get_or_set(key, first, second, ttl) ==
    /\ Has(cache, key) /\ ~is_expired(EntryOf(cache, key))
          => EntryOf(cache, key).access_count < MaxAccess
    /\ LET r == CacheGet(cache, key)
       IN  IF r.ret # None
           THEN /\ cache' = r.cache
                /\ last_set' = Kept(r.cache)
                /\ Record("get_or_set", key, r.ret, 0, r.cache)
           ELSE IF first = RAISE
           THEN /\ cache' = r.cache
                /\ last_set' = Kept(r.cache)
                /\ Record("get_or_set", key, second, 2, r.cache)
           ELSE /\ cache' = CacheSet(r.cache, key, first, ttl)
                /\ last_set' = Noted(CacheSet(r.cache, key, first, ttl), key, first, ttl)
                /\ Record("get_or_set", key, first, 1, CacheSet(r.cache, key, first, ttl))
    /\ cleanup_started' = TRUE
    /\ UNCHANGED <<now, envVars, mailVars, llmVars, apmVars, call>>

\* One round of _cleanup_expired_entries, the task the first get starts: every
\* expired entry is deleted.  (The task sleeps cleanup_interval between rounds;
\* here a round may come at any time.)
cleanup_expired_entries ==
    /\ cleanup_started
    /\ cache' = SelectSeq(cache, LAMBDA e : ~is_expired(e))
    /\ last_set' = Kept(SelectSeq(cache, LAMBDA e : ~is_expired(e)))
    /\ UNCHANGED <<now, cleanup_started, cache_call, envVars, mailVars, llmVars, apmVars, call>>

\* Time passes, up to the limit.
Tick(limit) ==
    /\ now < limit
    /\ now' = now + 1
    /\ UNCHANGED <<cache, cleanup_started, cache_call, last_set,
                   envVars, mailVars, llmVars, apmVars, call>>

-----------------------------------------------------------------------------
(* Email helpers *)

\* EmailPayload / EmailRequest: the inbound email.
NoEmail == [from_email |-> "", name |-> "", subject |-> "", content |-> ""]

\* str[i]
Char(s, i) == SubSeq(s, i, i)

UpperLetters == "ABCDEFGHIJKLMNOPQRSTUVWXYZ"

LowerLetters == "abcdefghijklmnopqrstuvwxyz"

\* str.lower() of one character
LowerChar(c) ==
    IF \E i \in 1..Len(UpperLetters) : Char(UpperLetters, i) = c
    THEN Char(LowerLetters, CHOOSE i \in 1..Len(UpperLetters) : Char(UpperLetters, i) = c)
    ELSE c

\* str.lower()
RECURSIVE Lower(_)
Lower(s) == IF s = "" THEN "" ELSE LowerChar(Char(s, 1)) \o Lower(SubSeq(s, 2, Len(s)))

\* `keyword in text`
Contains(text, keyword) ==
    \E i \in 1..(Len(text) - Len(keyword) + 1) : SubSeq(text, i, i + Len(keyword) - 1) = keyword

\* regex \s
IsSpace(c) == c \in {" ", "\t", "\n", "\r"}

\* Where a greedy run of \s that starts at i ends: the first position from i
\* on that holds no whitespace (Len + 1 when there is none).
SpaceEnd(s, i) ==
    CHOOSE k \in i..(Len(s) + 1) :
        /\ k > Len(s) \/ ~IsSpace(Char(s, k))
        /\ \A m \in i..(k - 1) : IsSpace(Char(s, m))

\* Where a greedy run of [^...] that starts at i ends: the first position from
\* i on that holds one of the excluded characters (Len + 1 when there is none).
RunEnd(s, i, excluded) ==
    CHOOSE k \in i..(Len(s) + 1) :
        /\ k > Len(s) \/ Char(s, k) \in excluded
        /\ \A m \in i..(k - 1) : Char(s, m) \notin excluded

\* str.strip()
RECURSIVE StripLeft(_)
StripLeft(s) == IF s # "" /\ IsSpace(Char(s, 1)) THEN StripLeft(SubSeq(s, 2, Len(s))) ELSE s

RECURSIVE StripRight(_)
StripRight(s) ==
    IF s # "" /\ IsSpace(Char(s, Len(s))) THEN StripRight(SubSeq(s, 1, Len(s) - 1)) ELSE s

StripText(s) == StripRight(StripLeft(s))

\* The least and the greatest of a nonempty set of positions.
Least(S) == CHOOSE i \in S : \A j \in S : i <= j

Greatest(S) == CHOOSE i \in S : \A j \in S : i >= j

\* No match, and a match whose group(1) is g.
NoMatch == [matched |-> FALSE, group |-> ""]

Matched(g) == [matched |-> TRUE, group |-> g]

\* re.search(r'<lit>\s*([^<\n]+)', s, re.IGNORECASE | re.MULTILINE): at the
\* leftmost occurrence of lit (in any case) from which the rest matches, \s*
\* takes as much whitespace as leaves the group a first character.
SearchHeader(s, lit) ==
    LET GroupStarts(i) ==
            {p \in (i + Len(lit))..SpaceEnd(s, i + Len(lit)) :
                 p <= Len(s) /\ Char(s, p) \notin {"<", "\n"}}
        starts == {i \in 1..(Len(s) - Len(lit) + 1) :
                       /\ Lower(SubSeq(s, i, i + Len(lit) - 1)) = lit
                       /\ GroupStarts(i) # {}}
    IN  IF starts = {} THEN NoMatch
        ELSE LET p == Greatest(GroupStarts(Least(starts)))
             IN  Matched(SubSeq(s, p, RunEnd(s, p, {"<", "\n"}) - 1))

\* Where ^ matches under re.MULTILINE.
LineStarts(s) == {i \in 1..Len(s) : i = 1 \/ Char(s, i - 1) = "\n"}

\* re.search(r'^([^<\n]+)\s*<[^>]+>', s, ...): Name <email@domain.com>
SearchAngle(s) ==
    LET GroupEnd(i) == RunEnd(s, i, {"<", "\n"})
        Open(i) == SpaceEnd(s, GroupEnd(i))
        starts == {i \in LineStarts(s) :
                       /\ GroupEnd(i) > i
                       /\ Open(i) < Len(s)
                       /\ Char(s, Open(i)) = "<"
                       /\ Char(s, Open(i) + 1) # ">"
                       /\ \E q \in (Open(i) + 2)..Len(s) : Char(s, q) = ">"}
    IN  IF starts = {} THEN NoMatch
        ELSE Matched(SubSeq(s, Least(starts), GroupEnd(Least(starts)) - 1))

\* re.search(r'^([^@\n]+)@', s, ...): name@domain.com
SearchLocalPart(s) ==
    LET GroupEnd(i) == RunEnd(s, i, {"@", "\n"})
        starts == {i \in LineStarts(s) :
                       /\ GroupEnd(i) > i
                       /\ GroupEnd(i) <= Len(s)
                       /\ Char(s, GroupEnd(i)) = "@"}
    IN  IF starts = {} THEN NoMatch
        ELSE Matched(SubSeq(s, Least(starts), GroupEnd(Least(starts)) - 1))

\* re.sub(r'["\']', '', name)
RECURSIVE RemoveQuotes(_)
RemoveQuotes(s) ==
    IF s = "" THEN ""
    ELSE (IF Char(s, 1) \in {"\"", "'"} THEN "" ELSE Char(s, 1))
             \o RemoveQuotes(SubSeq(s, 2, Len(s)))

\* re.sub(r'\s+', ' ', name)
RECURSIVE NormalizeSpace(_)
NormalizeSpace(s) ==
    IF s = "" THEN ""
    ELSE IF IsSpace(Char(s, 1))
         THEN " " \o NormalizeSpace(SubSeq(s, SpaceEnd(s, 1), Len(s)))
         ELSE Char(s, 1) \o NormalizeSpace(SubSeq(s, 2, Len(s)))

\* The name the loop body makes of a match's group(1).
CleanName(g) == NormalizeSpace(RemoveQuotes(StripText(g)))

\* EmailParser.extract_sender_name_fallback: the searches in order; the first
\* one that matches and leaves a name of more than one character gives the
\* result, else None.
SenderSearches(s) ==
    <<SearchHeader(s, "from:"), SearchHeader(s, "sender:"), SearchAngle(s), SearchLocalPart(s)>>

extract_sender_name_fallback(email_content) ==
    LET found == SenderSearches(email_content)
        good == {i \in 1..Len(found) :
                     found[i].matched /\ Len(CleanName(found[i].group)) > 1}
    IN  IF good = {} THEN None ELSE CleanName(found[Least(good)].group)

\* Email texts with and without the header shapes.
SenderContents ==
    {"From: Jane Doe\nHi, what is your pricing?",
     "hello\nfrom:   \"Bob  Ray\" <bob@x.io>\nhelp",
     "Sender: Ann Lee\nFrom: J\n",
     "Ann Lee <ann@x.io>\nhello",
     "From: <j@x.io>\nbob@x.io wrote",
     "no header here"}

\* The categories, in the order of the intent_keywords dicts.
Intents == <<"sales", "support", "partnership", "general">>

\* ParserAgent.intent_keywords
ParserKeywords ==
    [sales |-> <<"demo", "pricing", "buy", "purchase", "cost", "price", "interested", "product">>,
     support |-> <<"help", "issue", "problem", "bug", "error", "not working", "support">>,
     partnership |-> <<"partnership", "collaborate", "partner", "business", "deal">>,
     general |-> <<"hello", "hi", "information", "question", "inquiry">>]

\* ValidationAgent.determine_intent's intent_keywords
ValidationKeywords ==
    [sales |-> <<"demo", "pricing", "buy", "purchase", "cost", "price", "interested", "product", "quote">>,
     support |-> <<"help", "issue", "problem", "bug", "error", "not working", "support", "assistance">>,
     partnership |-> <<"partnership", "collaborate", "partner", "business", "deal", "collaboration">>,
     general |-> <<"hello", "hi", "information", "question", "inquiry", "contact">>]

\* (subject + " " + email_content).lower()
ContentLower(e) == Lower(e.subject \o " " \o e.content)

\* sum(1 for keyword in keywords if keyword in content_lower)
Hits(text, keywords) == Cardinality({i \in 1..Len(keywords) : Contains(text, keywords[i])})

\* (variant: the categories are tried from the last to the first)
MutFallbackLastCategory(e) ==
    LET hit == {i \in 1..Len(Intents) : Hits(ContentLower(e), ParserKeywords[Intents[i]]) > 0}
    IN  IF hit = {} THEN "general" ELSE Intents[Greatest(hit)]

\* ParserAgent._fallback_intent_parsing: the first category, in dict order, one
\* of whose keywords occurs; "general" when none does.
FallbackIntentParsing(e) ==
    LET hit == {i \in 1..Len(Intents) : Hits(ContentLower(e), ParserKeywords[Intents[i]]) > 0}
    IN  IF hit = {} THEN "general" ELSE Intents[Least(hit)]

\* (variant: the category with the fewest hits wins)
MutBestIntentFewest(e) ==
    LET score(i) == Hits(ContentLower(e), ValidationKeywords[Intents[i]])
        best == Least({i \in 1..Len(Intents) : \A j \in 1..Len(Intents) : score(i) <= score(j)})
    IN  IF score(best) > 0 THEN Intents[best] ELSE "general"

\* ValidationAgent.determine_intent: max() over the scores returns the first
\* category, in dict order, with the highest score; "general" when that is 0.
BestIntent(e) ==
    LET score(i) == Hits(ContentLower(e), ValidationKeywords[Intents[i]])
        best == Least({i \in 1..Len(Intents) : \A j \in 1..Len(Intents) : score(i) >= score(j)})
    IN  IF score(best) > 0 THEN Intents[best] ELSE "general"

\* What generate_text hands parse_email: the failure envelope, or a success
\* whose response is no JSON, a JSON array, a JSON object without "intent", or
\* a JSON object that names an intent.
IntentOutcomes ==
    {"failed", "invalid_json", "json_array", "json_no_intent", "json_sales", "json_support"}

\* No intent classification yet.
NoIntentCall == [op |-> "none", outcome |-> "none", intent |-> None]

\* ParserAgent.parse_email: the intent the model's JSON names ("general" when it
\* names none); the keyword fallback when generate_text failed, json.loads
\* raised JSONDecodeError, or the JSON is no object (.get raises, caught by the
\* outer except).
ParsedIntent(e, outcome) ==
    CASE outcome = "json_sales" -> "sales"
      [] outcome = "json_support" -> "support"
      [] outcome = "json_no_intent" -> "general"
      [] OTHER -> FallbackIntentParsing(e)

\* ParserAgent.parse_email(email_payload)
parse_email(outcome) ==
    /\ intent_call' =
           [op |-> "parse_email", outcome |-> outcome, intent |-> ParsedIntent(email, outcome)]
    /\ UNCHANGED <<cacheVars, envVars, llmVars, apmVars, call, email, storeVars>>

\* ValidationAgent.determine_intent(email_content, subject)
determine_intent ==
    /\ intent_call' = [op |-> "determine_intent", outcome |-> "none", intent |-> BestIntent(email)]
    /\ UNCHANGED <<cacheVars, envVars, llmVars, apmVars, call, email, storeVars>>

\* Subjects and bodies with keywords of none, one and several categories.
IntentSubjects == {"", "Pricing", "Partnership deal"}

IntentContents ==
    {"Good morning",
     "hello, I am interested in a demo",
     "I need help, there is an issue with the pricing page",
     "Is the product not working? A bug?",
     "nothing to add",
     "We would like to collaborate"}

-----------------------------------------------------------------------------
(* Lead store: CRMService *)

\* The addresses emails come from: two spellings of one address, and another.
Addresses == {"jane@x.io", "Jane@X.io", "bob@x.io"}

\* Which of the three JSON files a call manages to read (open and json.load
\* succeed).  The service writes whole valid files only, so a read that fails
\* comes from outside the program.
Reads == [existing_ok : BOOLEAN, new_ok : BOOLEAN, outbox_ok : BOOLEAN]

NoFault == [existing_ok |-> TRUE, new_ok |-> TRUE, outbox_ok |-> TRUE]

\* (variant: a read that fails returns what an earlier read returned)
MutReadCached(io) == existing_leads

\* CRMService.get_existing_leads: [] when the read fails.
get_existing_leads(io) == IF io.existing_ok THEN existing_leads ELSE <<>>

\* CRMService.get_new_leads: [] when the read fails.
get_new_leads(io) == IF io.new_ok THEN new_leads ELSE <<>>

\* CRMService.get_outbox: [] when the read fails.
get_outbox(io) == IF io.outbox_ok THEN outbox ELSE <<>>

\* f"lead_{int(asyncio.get_event_loop().time() * 1000)}"
LeadId(t) == "lead_" \o ToString((t * 1000) \div TicksPerSecond)

\* f"AC{int(asyncio.get_event_loop().time())}"
AccountId(t) == "AC" \o ToString(t \div TicksPerSecond)

\* f"msg_{int(asyncio.get_event_loop().time() * 1000)}"
MessageId(t) == "msg_" \o ToString((t * 1000) \div TicksPerSecond)

\* (variant: the addresses are compared as written)
MutFirstMatchExact(leads, addr) ==
    LET hits == {i \in 1..Len(leads) : leads[i].email = addr}
    IN  IF hits = {} THEN 0 ELSE Least(hits)

\* The index of the first record whose email equals addr ignoring case, 0 when
\* there is none: `for lead in leads: if lead.get('email', '').lower() == email_lower`.
FirstMatch(leads, addr) ==
    LET hits == {i \in 1..Len(leads) : Lower(leads[i].email) = Lower(addr)}
    IN  IF hits = {} THEN 0 ELSE Least(hits)

\* What CRMService.check_lead returns: the existing leads are searched first.
LeadInfo(addr, io) ==
    IF FirstMatch(get_existing_leads(io), addr) > 0
    THEN [exists |-> TRUE, lead_type |-> "existing_lead"]
    ELSE IF FirstMatch(get_new_leads(io), addr) > 0
    THEN [exists |-> TRUE, lead_type |-> "new_lead"]
    ELSE [exists |-> FALSE, lead_type |-> "new_lead"]

\* The lead_entry CRMService.add_new_lead builds from lead_data.
LeadEntry(lead_data) ==
    [id |-> LeadId(now), name |-> lead_data.name, email |-> lead_data.email,
     intent |-> lead_data.intent, status |-> lead_data.status, account_id |-> None,
     created_at |-> now, last_contact |-> now]

\* (variant: the file is rewritten from an empty copy)
MutAddNewLeadStale(lead_data, io) == <<LeadEntry(lead_data)>>

\* new_leads.json after CRMService.add_new_lead: the list read, plus the entry.
AddNewLead(lead_data, io) == Append(get_new_leads(io), LeadEntry(lead_data))

\* `new_leads.pop(i)`
Pop(leads, i) == SubSeq(leads, 1, i - 1) \o SubSeq(leads, i + 1, Len(leads))

\* The record promote_lead moves: status, account id and last contact are set.
Promoted(lead) ==
    [lead EXCEPT !.status = "Existing Lead", !.account_id = AccountId(now),
                 !.last_contact = now]

\* [lead.get('email', '') for lead in existing_leads if lead.get('email')]
get_existing_emails(io) ==
    {get_existing_leads(io)[i].email : i \in {j \in 1..Len(get_existing_leads(io)) :
                                                get_existing_leads(io)[j].email # ""}}

\* (variant: the entry is written twice)
MutAddToOutboxTwice(email_data, io) == Append(Append(get_outbox(io), email_data), email_data)

\* (variant: the entry is put in front)
MutAddToOutboxFront(email_data, io) == <<email_data>> \o get_outbox(io)

\* outbox.json after CRMService.add_to_outbox: the list read, plus the entry.
AddToOutbox(email_data, io) == Append(get_outbox(io), email_data)

\* No CRMService call yet.
NoCrmCall == [op |-> "none", email |-> "", io |-> NoFault, ret |-> None]

\* CRMService.check_lead
check_lead(addr, io) ==
    /\ LET info == LeadInfo(addr, io)
       IN  crm_call' = [op |-> "check_lead", email |-> addr, io |-> io,
                        ret |-> IF info.exists THEN info.lead_type ELSE "not_found"]
    /\ UNCHANGED <<cacheVars, envVars, llmVars, apmVars, call, email, intent_call,
                   existing_leads, new_leads, outbox, pipeline, reply_call, workflowVars>>

\* CRMService.add_new_lead
add_new_lead(lead_data, io) ==
    /\ new_leads' = AddNewLead(lead_data, io)
    /\ crm_call' = [op |-> "add_new_lead", email |-> lead_data.email, io |-> io, ret |-> PyTrue]
    /\ UNCHANGED <<cacheVars, envVars, llmVars, apmVars, call, email, intent_call,
                   existing_leads, outbox, pipeline, reply_call, workflowVars>>

\* (variant: the promoted record stays in the new leads as well)
MutPromoteKeepNew(leads, i) == leads

\* new_leads.json after a promotion of the record at i.
PromoteRemaining(leads, i) == Pop(leads, i)

\* CRMService.promote_lead: the first new lead with the address is popped,
\* updated, appended to the existing leads as read, and both files are saved.
promote_lead(addr, io) ==
    /\ LET read == get_new_leads(io)
           i == FirstMatch(read, addr)
       IN  IF i = 0
           THEN /\ crm_call' = [op |-> "promote_lead", email |-> addr, io |-> io, ret |-> PyFalse]
                /\ UNCHANGED <<existing_leads, new_leads>>
           ELSE /\ existing_leads' = Append(get_existing_leads(io), Promoted(read[i]))
                /\ new_leads' = PromoteRemaining(read, i)
                /\ crm_call' = [op |-> "promote_lead", email |-> addr, io |-> io, ret |-> PyTrue]
    /\ UNCHANGED <<cacheVars, envVars, llmVars, apmVars, call, email, intent_call,
                   outbox, pipeline, reply_call, workflowVars>>

\* CRMService.add_to_outbox
add_to_outbox(email_data, io) ==
    /\ outbox' = AddToOutbox(email_data, io)
    /\ crm_call' = [op |-> "add_to_outbox", email |-> email_data.to, io |-> io, ret |-> PyTrue]
    /\ UNCHANGED <<cacheVars, envVars, llmVars, apmVars, call, email, intent_call,
                   existing_leads, new_leads, pipeline, reply_call, workflowVars>>

-----------------------------------------------------------------------------
(* Reply generation: PromptBuilder, ReplyGeneratorAgent, EmailAgent *)

\* A key a parsed JSON value does not have.
Missing == "<missing>"

\* An EmailRequest / EmailPayload with its optional intent.
NoRequest == [from_email |-> "", name |-> "", subject |-> "", content |-> "", intent |-> None]

\* The requests that come in: one from each address without an intent, and
\* one with an intent.
Requests ==
    {[from_email |-> a, name |-> "Jane", subject |-> "Pricing", content |-> "hello",
      intent |-> None] : a \in Addresses}
        \cup {[from_email |-> "jane@x.io", name |-> "Jane", subject |-> "Pricing",
                content |-> "hello", intent |-> "sales"]}

\* A dict with the keys the pipeline reads (a key not there is Missing), or a
\* JSON value that is no object.
Dict(subject, body, intent) ==
    [kind |-> "dict", subject |-> subject, body |-> body, intent |-> intent]

NoContent == [kind |-> "none", subject |-> Missing, body |-> Missing, intent |-> Missing]

JsonList == [kind |-> "list", subject |-> Missing, body |-> Missing, intent |-> Missing]

\* The texts a provider answers a reply prompt with: prose, a JSON array, and
\* JSON objects with none, one, two and all three of the keys.
ReplyTexts ==
    {"Sure, here is the reply.",
     "[\"Happy to help.\"]",
     "{}",
     "{\"subject\": \"Re: Pricing\"}",
     "{\"subject\": \"Re: Pricing\", \"body\": \"Happy to help.\"}",
     "{\"subject\": \"Re: Pricing\", \"body\": \"Happy to help.\", \"intent\": \"sales\"}"}

\* The envelopes generate_text returns to a reply prompt.
ReplyResults ==
    {[success |-> FALSE, response |-> ApologyText]}
        \cup {[success |-> TRUE, response |-> t] : t \in ReplyTexts}

\* json.loads on these texts; kind "error" stands for JSONDecodeError.
json_loads(text) ==
    CASE text = "[\"Happy to help.\"]" -> JsonList
      [] text = "{}" -> Dict(Missing, Missing, Missing)
      [] text = "{\"subject\": \"Re: Pricing\"}" -> Dict("Re: Pricing", Missing, Missing)
      [] text = "{\"subject\": \"Re: Pricing\", \"body\": \"Happy to help.\"}" ->
             Dict("Re: Pricing", "Happy to help.", Missing)
      [] text = "{\"subject\": \"Re: Pricing\", \"body\": \"Happy to help.\", \"intent\": \"sales\"}" ->
             Dict("Re: Pricing", "Happy to help.", "sales")
      [] OTHER -> [NoContent EXCEPT !.kind = "error"]

\* d[key] returns a value: d is a dict that has the key (KeyError otherwise,
\* TypeError on a list).
Subscriptable(d, key) == d.kind = "dict" /\ d[key] # Missing

\* bool(d): an empty dict is false.
Truthy(d) ==
    \/ d.kind = "list"
    \/ d.kind = "dict" /\ \E key \in {"subject", "body", "intent"} : d[key] # Missing

\* PromptBuilder.generate_fallback_email: the new-customer template.  (The
\* dash of the subject is an en dash in the source.)
NewCustomerTemplate(request) ==
    Dict("Welcome to Thryvix AI - You Are Very Important to Us!",
         "Hi " \o request.name \o ",\n\nWe are absolutely thrilled by your interest in Thryvix AI! "
            \o "You are very important to us, and we want to make sure your experience with our "
            \o "products is exceptional.\n\nOur team is excited to work with you and will reach "
            \o "out shortly to provide you with a personalized introduction to our services. "
            \o "We're committed to making you feel valued and ensuring your success.\n\n"
            \o "Thank you for choosing Thryvix AI!\n\nWarm regards,\nThe Thryvix AI Team",
         IF request.intent \in {None, ""} THEN "general" ELSE request.intent)

\* PromptBuilder.generate_fallback_email: the existing-customer template.
ExistingCustomerTemplate(request) ==
    Dict("Re: " \o request.subject,
         "Hi " \o request.name \o ",\n\nThank you for reaching out to Thryvix AI. We've received "
            \o "your message and appreciate your continued business.\n\nOur team will review your "
            \o "request and get back to you within 24 hours with a detailed response.\n\n"
            \o "If you have any urgent questions, please don't hesitate to contact us directly.\n\n"
            \o "Best regards,\nThe Thryvix AI Team",
         IF request.intent \in {None, ""} THEN "general" ELSE request.intent)

\* PromptBuilder.generate_fallback_email(email_request, is_new_customer)
generate_fallback_email(request, is_new_customer) ==
    IF is_new_customer THEN NewCustomerTemplate(request) ELSE ExistingCustomerTemplate(request)

\* ReplyGeneratorAgent._fallback_reply(email_payload, intent, is_new_lead): the
\* new-lead template, or the existing-customer acknowledgment for the intent.
fallback_reply(payload, intent, is_new_lead) ==
    IF is_new_lead
    THEN Dict("Welcome to Thryvix AI - You Are Very Important to Us!",
              NewCustomerTemplate(payload).body, intent)
    ELSE Dict("Re: " \o payload.subject,
              CASE intent = "sales" ->
                     "Hi " \o payload.name \o ",\n\nThank you for your interest! Our team will "
                        \o "contact you shortly to discuss your requirements.\n\n"
                        \o "Best regards,\nThryvix AI Team"
                [] intent = "support" ->
                     "Hi " \o payload.name \o ",\n\nThank you for reaching out. We've received "
                        \o "your support request and will get back to you within 24 hours.\n\n"
                        \o "Best regards,\nThryvix AI Support Team"
                [] OTHER ->
                     "Hi " \o payload.name \o ",\n\nThank you for your email. We'll review your "
                        \o "message and get back to you soon.\n\nBest regards,\nThryvix AI Team",
              intent)

\* parsed_reply.get(key, default)
GetOr(d, key, default) == IF d[key] # Missing THEN d[key] ELSE default

\* What ReplyGeneratorAgent.generate_reply returns for generate_text's result:
\* the parsed subject and body with their defaults; the fallback when the call
\* failed, the text is no JSON, or the JSON is no object (.get raises, and the
\* outer except catches it).
ReplyResultOf(payload, intent, is_new_lead, result) ==
    IF result.success /\ json_loads(result.response).kind = "dict"
    THEN Dict(GetOr(json_loads(result.response), "subject", "Re: " \o payload.subject),
              GetOr(json_loads(result.response), "body",
                    "Thank you for your email. We'll get back to you soon."),
              intent)
    ELSE fallback_reply(payload, intent, is_new_lead)

\* No generate_reply call yet.
NoReplyCall == [op |-> "none", payload |-> NoRequest, intent |-> None, is_new_lead |-> FALSE,
                result |-> [success |-> FALSE, response |-> ""], raised |-> FALSE,
                reply |-> NoContent]

\* ReplyGeneratorAgent.generate_reply(email_payload, intent, customer_type, is_new_lead)
generate_reply(payload, intent, is_new_lead, result) ==
    /\ reply_call' = [op |-> "generate_reply", payload |-> payload, intent |-> intent,
                      is_new_lead |-> is_new_lead, result |-> result, raised |-> FALSE,
                      reply |-> ReplyResultOf(payload, intent, is_new_lead, result)]
    /\ UNCHANGED <<cacheVars, envVars, llmVars, apmVars, call, email, intent_call,
                   existing_leads, new_leads, outbox, crm_call, pipeline, workflowVars>>

\* No batch_process_emails call yet.  mode is "gather" for
\* AIProviderManager.batch_process_emails and "loop" for the /api/batch/process
\* endpoint; completed lists the input positions in the order their processing
\* ended.
NoBatch == [pc |-> "idle", mode |-> "none", emails |-> <<>>, tasks |-> <<>>,
            completed |-> <<>>, results |-> <<>>]

\* No validate_email call yet; a ValidationResult's user_id None is 0 here.
NoValidationCall == [op |-> "none", payload |-> NoRequest, validated |-> FALSE, user_id |-> 0,
                     customer_type |-> None, is_new_lead |-> TRUE]

\* (variant: every new customer gets the first id)
MutNewCustomerFirstId(payload, list) ==
    [id |-> 1, name |-> payload.name, email |-> payload.from_email,
     type |-> "new_lead", status |-> "New Lead", account_id |-> None,
     created_at |-> now, last_contact |-> now]

\* The new_customer record ValidationAgent.validate_email appends.
NewCustomer(payload, list) ==
    [id |-> Len(list) + 1, name |-> payload.name, email |-> payload.from_email,
     type |-> "new_lead", status |-> "New Lead", account_id |-> None,
     created_at |-> now, last_contact |-> now]

\* ValidationAgent.validate_email (email workflow): a customer with the
\* address, compared in lower case, is an existing customer; any other address
\* is registered as a new lead.  A read that fails ends in the except branch,
\* whose ValidationResult carries the defaults.
ValidationOf(payload, read_ok) ==
    LET i == FirstMatch(customers, payload.from_email)
    IN  IF ~read_ok
        THEN [NoValidationCall EXCEPT !.op = "validate_email", !.payload = payload]
        ELSE IF i > 0
        THEN [op |-> "validate_email", payload |-> payload, validated |-> TRUE,
              user_id |-> customers[i].id, customer_type |-> customers[i].type,
              is_new_lead |-> FALSE]
        ELSE [op |-> "validate_email", payload |-> payload, validated |-> TRUE,
              user_id |-> Len(customers) + 1, customer_type |-> "lead",
              is_new_lead |-> TRUE]

\* customers.json after ValidationAgent.validate_email.
CustomersAfter(payload, read_ok) ==
    IF read_ok /\ FirstMatch(customers, payload.from_email) = 0
    THEN Append(customers, NewCustomer(payload, customers))
    ELSE customers

\* ValidationAgent.validate_email(email_payload)
validate_email(payload, read_ok) ==
    /\ validation_call' = ValidationOf(payload, read_ok)
    /\ customers' = CustomersAfter(payload, read_ok)
    /\ UNCHANGED <<cacheVars, envVars, llmVars, apmVars, call, email, intent_call,
                   existing_leads, new_leads, outbox, crm_call, pipeline, reply_call,
                   workflow, batch>>

\* The process_email coroutines that may run at once.
MaxPipelines == 2

Pipelines == 1..MaxPipelines

\* No EmailResponse yet.
NoResponse == [subject |-> Missing, body |-> Missing, intent |-> Missing,
               customer_type |-> None, is_new_lead |-> FALSE, sent |-> FALSE,
               message_id |-> None]

\* A coroutine that has not started.  path is the customer type whose prompt
\* and template _generate_email_content works with, source where its return
\* value comes from ("cache", "provider" or "fallback"), error whether
\* process_email's except branch built the response, logged how many entries
\* the run put in the outbox, stages the stages begun and done so far.
NoRun == [pc |-> "idle", request |-> NoRequest, is_new_lead |-> FALSE,
          known |-> "not_found", path |-> "none", source |-> "none",
          result |-> [success |-> FALSE, response |-> ""],
          content |-> NoContent, error |-> FALSE, logged |-> 0, response |-> NoResponse,
          stages |-> <<>>]

\* f"email_{email_request.from_email}_{is_new_lead}_{email_request.intent}"
CacheKey(request, is_new_lead) ==
    "email_" \o request.from_email \o "_" \o (IF is_new_lead THEN PyTrue ELSE PyFalse)
        \o "_" \o request.intent

\* `cached_result = await self.cache_service.get(cache_key)` is truthy.
CacheHit(key) ==
    /\ Has(cache, key)
    /\ ~is_expired(EntryOf(cache, key))
    /\ Truthy(EntryOf(cache, key).value)

\* What _generate_email_content returns for generate_text's result: the parsed
\* JSON whatever its shape, the fallback when the call failed or the text is
\* no JSON.
ContentOf(request, is_new_lead, result) ==
    IF result.success /\ json_loads(result.response).kind # "error"
    THEN json_loads(result.response)
    ELSE generate_fallback_email(request, is_new_lead)

\* The outbox_entry _log_to_outbox builds.
OutboxEntry(request, content, send_result, io) ==
    [timestamp |-> now, from |-> "noreply@thryvix.ai", to |-> request.from_email,
     subject |-> content.subject, body |-> content.body, intent |-> content.intent,
     customer_type |-> IF request.from_email \notin get_existing_emails(io)
                       THEN "new_lead" ELSE "existing_lead",
     sent |-> send_result.success, message_id |-> send_result.message_id]

\* The response of process_email's except branch.
ErrorResponse(request) ==
    [subject |-> generate_fallback_email(request, TRUE).subject,
     body |-> generate_fallback_email(request, TRUE).body,
     intent |-> generate_fallback_email(request, TRUE).intent,
     customer_type |-> "new_lead", is_new_lead |-> TRUE, sent |-> TRUE,
     message_id |-> None]

\* process_email from the return of _generate_email_content to its own return,
\* which no await interrupts: steps 4 (send), 5 (add the new lead), 6 (log to
\* the outbox) and the response.  A subscript that raises ends in the except
\* branch; inside _log_to_outbox it is swallowed and only the entry is lost.
Finish(p, run, send_ok, io) ==
    LET content == run.content
        request == run.request
        send_result == [success |-> send_ok,
                        message_id |-> IF send_ok THEN MessageId(now) ELSE None]
        sends == Subscriptable(content, "subject") /\ Subscriptable(content, "body")
        adds == sends /\ run.is_new_lead /\ Subscriptable(content, "intent")
        logs == sends /\ (run.is_new_lead => adds) /\ Subscriptable(content, "intent")
        returns == logs
        leads == IF adds
                 THEN AddNewLead([name |-> request.name, email |-> request.from_email,
                                  intent |-> content.intent, status |-> "New Lead"], io)
                 ELSE new_leads
    IN  /\ new_leads' = leads
        /\ outbox' = IF logs
                     THEN AddToOutbox(OutboxEntry(request, content, send_result, io), io)
                     ELSE outbox
        /\ pipeline' =
               [pipeline EXCEPT ![p] =
                   [run EXCEPT !.pc = "done", !.error = ~returns,
                               !.logged = IF logs THEN 1 ELSE 0,
                               !.stages = run.stages \o <<"reply_done">>
                                   \o (IF sends /\ (run.is_new_lead => adds)
                                       THEN <<"log">> ELSE <<>>)
                                   \o (IF logs THEN <<"log_done">> ELSE <<>>),
                               !.response =
                                   IF returns
                                   THEN [subject |-> content.subject, body |-> content.body,
                                         intent |-> content.intent,
                                         customer_type |-> IF run.is_new_lead THEN "new_lead"
                                                           ELSE "existing_lead",
                                         is_new_lead |-> run.is_new_lead,
                                         sent |-> send_result.success,
                                         message_id |-> send_result.message_id]
                                   ELSE ErrorResponse(request)]]

\* EmailAgent.process_email up to the await of generate_text: step 1
\* (check_lead), then _generate_email_content's cache lookup.  A hit returns
\* the cached content and the call runs to its end; a miss builds the prompt
\* of the customer type and waits for the providers.
process_email(p, request, send_ok, io) ==
    /\ pipeline[p].pc = "idle"
    /\ LET info == LeadInfo(request.from_email, io)
           is_new_lead == ~info.exists
           key == CacheKey(request, is_new_lead)
           run == [NoRun EXCEPT !.request = request, !.is_new_lead = is_new_lead,
                                !.known = IF info.exists THEN info.lead_type ELSE "not_found",
                                !.path = IF is_new_lead THEN "new_customer"
                                         ELSE "existing_customer",
                                !.stages = <<"validate", "validate_done", "reply">>]
       IN  /\ cache' = CacheGet(cache, key).cache
           /\ cleanup_started' = TRUE
           /\ IF CacheHit(key)
              THEN Finish(p, [run EXCEPT !.source = "cache",
                                         !.content = EntryOf(cache, key).value], send_ok, io)
              ELSE /\ pipeline' = [pipeline EXCEPT ![p] = [run EXCEPT !.pc = "awaiting_llm"]]
                   /\ UNCHANGED <<new_leads, outbox>>
    /\ UNCHANGED <<now, cache_call, last_set, envVars, llmVars, apmVars, call, email,
                   intent_call, existing_leads, crm_call, reply_call, workflowVars>>

\* (variant: a parsed reply is not stored)
MutCacheNothing(c, key, value, ttl) == c

\* `await self.cache_service.set(cache_key, email_content, ttl=3600)`
CacheContent(c, key, value, ttl) == CacheSet(c, key, value, ttl)

\* EmailAgent.process_email from the return of generate_text on: the rest of
\* _generate_email_content (a parsed reply is cached for an hour and returned,
\* anything else is replaced by the fallback), then steps 4 to 6.
process_email_resume(p, result, send_ok, io) ==
    /\ pipeline[p].pc = "awaiting_llm"
    /\ LET run == pipeline[p]
           parsed == result.success /\ json_loads(result.response).kind # "error"
           content == ContentOf(run.request, run.is_new_lead, result)
       IN  /\ cache' = IF parsed
                       THEN CacheContent(cache, CacheKey(run.request, run.is_new_lead),
                                         content, 3600)
                       ELSE cache
           /\ Finish(p, [run EXCEPT !.result = result, !.content = content,
                                    !.source = IF parsed THEN "provider" ELSE "fallback"],
                     send_ok, io)
    /\ UNCHANGED <<now, cleanup_started, cache_call, last_set, envVars, llmVars, apmVars,
                   call, email, intent_call, existing_leads, crm_call, reply_call, workflowVars>>

-----------------------------------------------------------------------------
(* Email workflow: EmailWorkflow.process_email *)

\* A workflow coroutine that has not started.  stages lists the stages begun
\* ("classify", "validate", "reply", "log") and done ("..._done") so far,
\* log_folder the directory LoggingAgent wrote the interaction to.
NoWorkflow == [pc |-> "idle", payload |-> NoRequest, intent |-> None,
               validation |-> NoValidationCall, reply |-> NoContent, stages |-> <<>>,
               status |-> "none", log_folder |-> None]

\* (variant: the lead store is consulted before the intent is there)
MutValidateBeforeParsed(stages) ==
    <<"classify", "validate", "validate_done", "classify_done", "reply">>

\* The stages once parse_email has returned: step 2 (validate_email) runs to
\* its end, then step 3 (generate_reply) begins.
StagesAfterParse(stages) == stages \o <<"classify_done", "validate", "validate_done", "reply">>

\* EmailWorkflow.process_email up to the await of generate_text in step 1
\* (parse_email).
workflow_process_email(payload) ==
    /\ workflow.pc = "idle"
    /\ workflow' = [NoWorkflow EXCEPT !.pc = "parsing", !.payload = payload,
                                      !.stages = <<"classify">>]
    /\ UNCHANGED <<cacheVars, envVars, llmVars, apmVars, call, email, intent_call,
                   existing_leads, new_leads, outbox, crm_call, pipeline, reply_call,
                   customers, validation_call, batch>>

\* From the return of generate_text in parse_email to the await of
\* generate_text in step 3: the intent, then step 2 (validate_email, which has
\* no await and turns a failed read of the customer file into an unvalidated
\* result), then the reply prompt for the customer type.
workflow_parsed(outcome, read_ok) ==
    /\ workflow.pc = "parsing"
    /\ workflow' = [workflow EXCEPT !.pc = "replying",
                                    !.intent = ParsedIntent(workflow.payload, outcome),
                                    !.validation = ValidationOf(workflow.payload, read_ok),
                                    !.stages = StagesAfterParse(workflow.stages)]
    /\ customers' = CustomersAfter(workflow.payload, read_ok)
    /\ validation_call' = ValidationOf(workflow.payload, read_ok)
    /\ intent_call' = [op |-> "parse_email", outcome |-> outcome,
                       intent |-> ParsedIntent(workflow.payload, outcome)]
    /\ UNCHANGED <<cacheVars, envVars, llmVars, apmVars, call, email,
                   existing_leads, new_leads, outbox, crm_call, pipeline, reply_call, batch>>

\* From the return of generate_text in generate_reply to the end: the reply,
\* step 4 (log_interaction, into the folder of the customer type) and the
\* "processed" response.
workflow_replied(result) ==
    /\ workflow.pc = "replying"
    /\ LET reply == ReplyResultOf(workflow.payload, workflow.intent,
                                  workflow.validation.is_new_lead, result)
       IN  /\ workflow' = [workflow EXCEPT !.pc = "done", !.reply = reply,
                                           !.status = "processed",
                                           !.log_folder = IF workflow.validation.is_new_lead
                                                          THEN "data/new_leads"
                                                          ELSE "data/existing_leads",
                                           !.stages = workflow.stages
                                               \o <<"reply_done", "log", "log_done">>]
           /\ reply_call' = [op |-> "generate_reply", payload |-> workflow.payload,
                             intent |-> workflow.intent,
                             is_new_lead |-> workflow.validation.is_new_lead,
                             result |-> result, raised |-> FALSE, reply |-> reply]
    /\ UNCHANGED <<cacheVars, envVars, llmVars, apmVars, call, email, intent_call,
                   existing_leads, new_leads, outbox, crm_call, pipeline,
                   customers, validation_call, batch>>

-----------------------------------------------------------------------------
(* Batch processing: AIProviderManager.batch_process_emails and the
   /api/batch/process endpoint *)

MaxBatch == 3

\* The members of a batch: two dicts, one with and one without a sender_name,
\* and a member that is no dict, on which email.get raises AttributeError.
BatchEmails ==
    {[kind |-> "dict", content |-> "From: Jane Doe", sender_name |-> None],
     [kind |-> "dict", content |-> "hello", sender_name |-> "Jane Doe"],
     [kind |-> "str", content |-> "hello", sender_name |-> None]}

Batches == UNION {[1..n -> BatchEmails] : n \in 0..MaxBatch}

\* What the provider chain gives a name extraction and a reply generation.
BatchNameResults == {[success |-> TRUE, response |-> "Jane Doe"],
                     [success |-> TRUE, response |-> "Unknown"],
                     [success |-> FALSE, response |-> ""]}

BatchReplyResults == {[success |-> TRUE, response |-> "Happy to help."],
                      [success |-> FALSE, response |-> ""]}

\* `sender_name or "there"`
OrThere(sender_name) == IF sender_name = None THEN "there" ELSE sender_name

\* process_single_email's two returns.
SingleEmailSuccess(sender_name, reply) ==
    [sender_name |-> sender_name, reply |-> reply, provider |-> "openai", success |-> TRUE]

SingleEmailError ==
    [error |-> "'str' object has no attribute 'get'", provider |-> "openai",
     success |-> FALSE]

\* A task of asyncio.gather: process_single_email on one member.  It runs to
\* its first await when the tasks are scheduled: a member that is no dict has
\* raised inside the try by then and the task is done with the error result.
NewTask(member) ==
    IF member.kind = "dict"
    THEN [pc |-> "extracting", sender_name |-> None, result |-> SingleEmailError]
    ELSE [pc |-> "done", sender_name |-> None, result |-> SingleEmailError]

\* The input positions whose task is done when gather starts, in task order.
RECURSIVE DoneAtStart(_, _)
DoneAtStart(emails, i) ==
    IF i > Len(emails) THEN <<>>
    ELSE (IF emails[i].kind = "dict" THEN <<>> ELSE <<i>>) \o DoneAtStart(emails, i + 1)

\* batch_process_emails up to `await asyncio.gather(*tasks, return_exceptions=True)`.
batch_process_emails(emails) ==
    /\ batch.pc = "idle"
    /\ batch' = [NoBatch EXCEPT !.pc = "gathering", !.mode = "gather", !.emails = emails,
                                !.tasks = [i \in 1..Len(emails) |-> NewTask(emails[i])],
                                !.completed = DoneAtStart(emails, 1)]
    /\ UNCHANGED <<cacheVars, envVars, llmVars, apmVars, call, email, intent_call,
                   existing_leads, new_leads, outbox, crm_call, pipeline, reply_call,
                   customers, validation_call, workflow>>

\* Task i of the gather resumes from extract_sender_name, which returns the
\* name or None, and awaits generate_reply.
single_email_named(i, result) ==
    /\ batch.pc = "gathering"
    /\ i \in 1..Len(batch.tasks)
    /\ batch.tasks[i].pc = "extracting"
    /\ batch' = [batch EXCEPT !.tasks[i].pc = "replying",
                              !.tasks[i].sender_name =
                                  WrapperReturn("extract_sender_name", None, result)]
    /\ UNCHANGED <<cacheVars, envVars, llmVars, apmVars, call, email, intent_call,
                   existing_leads, new_leads, outbox, crm_call, pipeline, reply_call,
                   customers, validation_call, workflow>>

\* Task i resumes from generate_reply, which returns the reply or the
\* thank-you text, and ends with its result.
single_email_replied(i, result) ==
    /\ batch.pc = "gathering"
    /\ i \in 1..Len(batch.tasks)
    /\ batch.tasks[i].pc = "replying"
    /\ batch' = [batch EXCEPT
                    !.tasks[i].pc = "done",
                    !.tasks[i].result =
                        SingleEmailSuccess(batch.tasks[i].sender_name,
                                           WrapperReturn("generate_email_reply",
                                                         OrThere(batch.tasks[i].sender_name),
                                                         result)),
                    !.completed = Append(batch.completed, i)]
    /\ UNCHANGED <<cacheVars, envVars, llmVars, apmVars, call, email, intent_call,
                   existing_leads, new_leads, outbox, crm_call, pipeline, reply_call,
                   customers, validation_call, workflow>>

\* (variant: the results are collected as the tasks complete)
MutGatherAsCompleted(tasks, completed) ==
    [k \in 1..Len(completed) |-> tasks[completed[k]].result]

\* What gather returns: the tasks' results in the order of the tasks.
Gather(tasks, completed) == [i \in 1..Len(tasks) |-> tasks[i].result]

\* gather returns once every task is done; no result is an exception, so
\* processed_results is the list gather returned.
batch_gathered ==
    /\ batch.pc = "gathering"
    /\ \A i \in 1..Len(batch.tasks) : batch.tasks[i].pc = "done"
    /\ batch' = [batch EXCEPT !.pc = "done",
                              !.results = Gather(batch.tasks, batch.completed)]
    /\ UNCHANGED <<cacheVars, envVars, llmVars, apmVars, call, email, intent_call,
                   existing_leads, new_leads, outbox, crm_call, pipeline, reply_call,
                   customers, validation_call, workflow>>

\* The endpoint's two results for the member at index i.
EndpointSuccess(i, sender_name, reply) ==
    [index |-> i, success |-> TRUE, sender_name |-> sender_name, reply |-> reply]

EndpointError(i) ==
    [index |-> i, success |-> FALSE, error |-> "'str' object has no attribute 'get'"]

\* The name the endpoint works with: the member's own, or the extracted one.
EndpointName(member, name_result) ==
    IF member.sender_name # None THEN member.sender_name
    ELSE WrapperReturn("extract_sender_name", None, name_result)

\* One turn of the endpoint's loop for the member at index i (from 0).
EndpointResult(i, member, name_result, reply_result) ==
    IF member.kind # "dict" THEN EndpointError(i)
    ELSE EndpointSuccess(i, EndpointName(member, name_result),
                         WrapperReturn("generate_email_reply",
                                       OrThere(EndpointName(member, name_result)),
                                       reply_result))

\* POST /api/batch/process: the endpoint before its loop.
api_batch_process(emails) ==
    /\ batch.pc = "idle"
    /\ batch' = [NoBatch EXCEPT !.pc = "looping", !.mode = "loop", !.emails = emails]
    /\ UNCHANGED <<cacheVars, envVars, llmVars, apmVars, call, email, intent_call,
                   existing_leads, new_leads, outbox, crm_call, pipeline, reply_call,
                   customers, validation_call, workflow>>

\* One turn of the loop: the next member is processed and its result appended.
api_batch_turn(name_result, reply_result) ==
    /\ batch.pc = "looping"
    /\ Len(batch.results) < Len(batch.emails)
    /\ LET i == Len(batch.results)
       IN  batch' = [batch EXCEPT
                        !.results = Append(batch.results,
                                           EndpointResult(i, batch.emails[i + 1],
                                                          name_result, reply_result)),
                        !.tasks = Append(batch.tasks,
                                         [name_result |-> name_result,
                                          reply_result |-> reply_result]),
                        !.completed = Append(batch.completed, i + 1)]
    /\ UNCHANGED <<cacheVars, envVars, llmVars, apmVars, call, email, intent_call,
                   existing_leads, new_leads, outbox, crm_call, pipeline, reply_call,
                   customers, validation_call, workflow>>

\* The loop is over and the endpoint returns its results.
api_batch_return ==
    /\ batch.pc = "looping"
    /\ Len(batch.results) = Len(batch.emails)
    /\ batch' = [batch EXCEPT !.pc = "done"]
    /\ UNCHANGED <<cacheVars, envVars, llmVars, apmVars, call, email, intent_call,
                   existing_leads, new_leads, outbox, crm_call, pipeline, reply_call,
                   customers, validation_call, workflow>>

-----------------------------------------------------------------------------
(* Initial states and specifications *)

\* An empty store, no coroutine started.
StoreInit ==
    /\ existing_leads = <<>>
    /\ new_leads = <<>>
    /\ outbox = <<>>
    /\ crm_call = NoCrmCall
    /\ pipeline = [p \in Pipelines |-> NoRun]
    /\ reply_call = NoReplyCall
    /\ customers = <<>>
    /\ validation_call = NoValidationCall
    /\ workflow = NoWorkflow
    /\ batch = NoBatch


\* The settings the process starts with.
EnvInit ==
    /\ api_key \in [Providers -> KeyStates]
    /\ ctor_ok \in [Providers -> BOOLEAN]
    /\ \A p \in Providers : api_key[p] = "unset" => ctor_ok[p]

\* No manager is built yet.
RegistryInit ==
    /\ llm_phase = "new"
    /\ models = <<>>
    /\ model_order = <<>>
    /\ apm_phase = "new"
    /\ providers = <<>>
    /\ epa_phase = "new"
    /\ epa_provider = None
    /\ call = NoCall

\* CacheService.__init__
CacheInit ==
    /\ now = 0
    /\ cache = <<>>
    /\ cleanup_started = FALSE
    /\ cache_call = NoCacheCall
    /\ last_set = [k \in Keys |-> NeverSet]

\* No email has come in.
MailInit ==
    /\ email = NoEmail
    /\ intent_call = NoIntentCall
    /\ StoreInit

Init == EnvInit /\ RegistryInit /\ CacheInit /\ MailInit

NextLLM ==
    \/ InitializeModels
    \/ \E op \in LLMOps, preferred \in Preferred :
           \E sender_name \in SenderNamesOf(op) : BeginCall(op, preferred, sender_name)
    \/ TryModel
    \/ AllFailed
    \/ get_available_models
    \/ get_model_info

SpecLLM == Init /\ [][NextLLM]_vars

NextProviders ==
    \/ InitializeProviders
    \/ \E provider \in Providers : EmailProcessingAgentInit(provider)
    \/ \E provider \in Providers, name_outcome \in NameOutcomes,
          reply_outcome \in TextOutcomes :
           process_single_email(provider, name_outcome, reply_outcome)

\* The registries and everything built on them.
NextRegistry == NextLLM \/ NextProviders

SpecRegistry == Init /\ [][NextRegistry]_vars

\* generate_text on every registry _initialize_models can leave behind,
\* the empty one (which makes the constructor raise) included.
ReadyRegistry ==
    /\ api_key \in [Providers -> {"unset", "key"}]
    /\ ctor_ok = [p \in Providers |-> TRUE]
    /\ llm_phase = "ready"
    /\ models = InitializeFrom([models |-> <<>>, model_order |-> <<>>], 1).models
    /\ model_order = InitializeFrom([models |-> <<>>, model_order |-> <<>>], 1).model_order
    /\ apm_phase = "new"
    /\ providers = <<>>
    /\ epa_phase = "new"
    /\ epa_provider = None
    /\ call = NoCall

InitGenerate == ReadyRegistry /\ CacheInit /\ MailInit

NextGenerate ==
    \/ \E op \in LLMOps, preferred \in Preferred :
           \E sender_name \in SenderNamesOf(op) : BeginCall(op, preferred, sender_name)
    \/ TryModel
    \/ AllFailed

SpecGenerate == InitGenerate /\ [][NextGenerate]_vars

\* Sender-name extraction: LLMManager's calls on an email with some text.
InitSender ==
    /\ ReadyRegistry
    /\ CacheInit
    /\ email \in {[NoEmail EXCEPT !.content = c] : c \in SenderContents}
    /\ intent_call = NoIntentCall
    /\ StoreInit

SpecSender == InitSender /\ [][NextGenerate]_vars

\* Intent classification of an email, by either classifier.
InitIntent ==
    /\ api_key = [p \in Providers |-> "key"]
    /\ ctor_ok = [p \in Providers |-> TRUE]
    /\ RegistryInit
    /\ CacheInit
    /\ email \in {[NoEmail EXCEPT !.subject = sub, !.content = c] :
                      sub \in IntentSubjects, c \in IntentContents}
    /\ intent_call = NoIntentCall
    /\ StoreInit

NextIntent ==
    \/ \E outcome \in IntentOutcomes : parse_email(outcome)
    \/ determine_intent

SpecIntent == InitIntent /\ [][NextIntent]_vars

\* A record of each collection as the service wrote it.
ExistingJane ==
    [id |-> "lead_0", name |-> "Jane", email |-> "jane@x.io", intent |-> "sales",
     status |-> "Existing Lead", account_id |-> "AC0", created_at |-> 0, last_contact |-> 0]

NewBob ==
    [id |-> "lead_0", name |-> "Bob", email |-> "bob@x.io", intent |-> "general",
     status |-> "New Lead", account_id |-> None, created_at |-> 0, last_contact |-> 0]

\* The email pipeline on a store with or without leads; the providers are
\* seen through the envelopes generate_text returns.
InitPipeline ==
    /\ api_key = [p \in Providers |-> "key"]
    /\ ctor_ok = [p \in Providers |-> TRUE]
    /\ RegistryInit
    /\ CacheInit
    /\ email = NoEmail
    /\ intent_call = NoIntentCall
    /\ existing_leads \in {<<>>, <<ExistingJane>>}
    /\ new_leads \in {<<>>, <<NewBob>>}
    /\ outbox = <<>>
    /\ crm_call = NoCrmCall
    /\ pipeline = [p \in Pipelines |-> NoRun]
    /\ reply_call = NoReplyCall
    /\ customers = <<>>
    /\ validation_call = NoValidationCall
    /\ workflow = NoWorkflow
    /\ batch = NoBatch

\* The steps of the coroutines ps, with the given readability of the files.
PipelineSteps(ps, ios) ==
    \E p \in ps, send_ok \in BOOLEAN, io \in ios :
        \/ \E request \in Requests : process_email(p, request, send_ok, io)
        \/ \E result \in ReplyResults : process_email_resume(p, result, send_ok, io)

NextPipeline == PipelineSteps(Pipelines, {NoFault})

SpecPipeline == InitPipeline /\ [][NextPipeline]_vars

\* A customer the workflow's file holds from before.
CustomerJane ==
    [id |-> 1, name |-> "Jane", email |-> "jane@x.io", type |-> "existing",
     status |-> "Existing Lead", account_id |-> "AC0", created_at |-> 0, last_contact |-> 0]

\* The customer-type decision of both pipelines: one EmailAgent.process_email
\* run, and the workflow's validate_email on its own file.
InitSelect ==
    /\ api_key = [p \in Providers |-> "key"]
    /\ ctor_ok = [p \in Providers |-> TRUE]
    /\ RegistryInit
    /\ CacheInit
    /\ email = NoEmail
    /\ intent_call = NoIntentCall
    /\ existing_leads \in {<<>>, <<ExistingJane>>}
    /\ new_leads \in {<<>>, <<NewBob>>}
    /\ outbox = <<>>
    /\ crm_call = NoCrmCall
    /\ pipeline = [p \in Pipelines |-> NoRun]
    /\ reply_call = NoReplyCall
    /\ customers \in {<<>>, <<CustomerJane>>}
    /\ validation_call = NoValidationCall
    /\ workflow = NoWorkflow
    /\ batch = NoBatch

NextSelect ==
    \/ PipelineSteps({1}, {NoFault})
    \/ \E payload \in Requests : validate_email(payload, TRUE)

SpecSelect == InitSelect /\ [][NextSelect]_vars

\* The longest outbox looked at.
MaxOutbox == 4

\* Entries as _log_to_outbox hands them to add_to_outbox.
OutboxEntries ==
    {OutboxEntry(r, NewCustomerTemplate(r), [success |-> TRUE, message_id |-> MessageId(now)],
                 NoFault) : r \in {q \in Requests : q.intent = None}}

\* The outbox alone, with reads of its file that succeed and reads that fail.
InitOutbox ==
    /\ api_key = [p \in Providers |-> "key"]
    /\ ctor_ok = [p \in Providers |-> TRUE]
    /\ RegistryInit
    /\ CacheInit
    /\ MailInit

NextOutbox ==
    \E email_data \in OutboxEntries, io \in {r \in Reads : r.existing_ok /\ r.new_ok} :
        /\ Len(outbox) < MaxOutbox
        /\ add_to_outbox(email_data, io)

SpecOutbox == InitOutbox /\ [][NextOutbox]_vars

\* The most leads the two collections hold together.
MaxLeads == 3

\* The lead_data process_email passes for a request.
LeadData(request) ==
    [name |-> request.name, email |-> request.from_email, intent |-> "general",
     status |-> "New Lead"]

\* The lead store alone: leads are looked up, added and promoted.
InitCRM ==
    /\ api_key = [p \in Providers |-> "key"]
    /\ ctor_ok = [p \in Providers |-> TRUE]
    /\ RegistryInit
    /\ CacheInit
    /\ email = NoEmail
    /\ intent_call = NoIntentCall
    /\ existing_leads \in {<<>>, <<ExistingJane>>}
    /\ new_leads \in {<<>>, <<NewBob>>}
    /\ outbox = <<>>
    /\ crm_call = NoCrmCall
    /\ pipeline = [p \in Pipelines |-> NoRun]
    /\ reply_call = NoReplyCall
    /\ customers = <<>>
    /\ validation_call = NoValidationCall
    /\ workflow = NoWorkflow
    /\ batch = NoBatch

NextCRM ==
    \/ \E addr \in Addresses : check_lead(addr, NoFault)
    \/ \E request \in {q \in Requests : q.intent = None} :
           /\ Len(new_leads) + Len(existing_leads) < MaxLeads
           /\ add_new_lead(LeadData(request), NoFault)
    \/ \E addr \in Addresses : promote_lead(addr, NoFault)

SpecCRM == InitCRM /\ [][NextCRM]_vars

\* One email through the workflow and one through EmailAgent.process_email.
InitStages ==
    /\ api_key = [p \in Providers |-> "key"]
    /\ ctor_ok = [p \in Providers |-> TRUE]
    /\ RegistryInit
    /\ CacheInit
    /\ email = NoEmail
    /\ intent_call = NoIntentCall
    /\ existing_leads \in {<<>>, <<ExistingJane>>}
    /\ new_leads = <<>>
    /\ outbox = <<>>
    /\ crm_call = NoCrmCall
    /\ pipeline = [p \in Pipelines |-> NoRun]
    /\ reply_call = NoReplyCall
    /\ customers \in {<<>>, <<CustomerJane>>}
    /\ validation_call = NoValidationCall
    /\ workflow = NoWorkflow
    /\ batch = NoBatch

NextStages ==
    \/ \E payload \in {r \in Requests : r.intent = None} : workflow_process_email(payload)
    \/ \E outcome \in IntentOutcomes, read_ok \in BOOLEAN : workflow_parsed(outcome, read_ok)
    \/ \E result \in ReplyResults : workflow_replied(result)
    \/ PipelineSteps({1}, {NoFault})

SpecStages == InitStages /\ [][NextStages]_vars

\* One batch, through the manager's gather or through the endpoint's loop.
InitBatch ==
    /\ MailInit
    /\ api_key = [p \in Providers |-> "key"]
    /\ ctor_ok = [p \in Providers |-> TRUE]
    /\ RegistryInit
    /\ CacheInit

NextBatch ==
    \/ \E emails \in Batches : batch_process_emails(emails)
    \/ \E i \in 1..MaxBatch, result \in BatchNameResults : single_email_named(i, result)
    \/ \E i \in 1..MaxBatch, result \in BatchReplyResults : single_email_replied(i, result)
    \/ batch_gathered
    \/ \E emails \in Batches : api_batch_process(emails)
    \/ \E name_result \in BatchNameResults, reply_result \in BatchReplyResults :
           api_batch_turn(name_result, reply_result)
    \/ api_batch_return

SpecBatch == InitBatch /\ [][NextBatch]_vars

\* Two coroutines on files whose reads may fail; the workflow's validate_email
\* beside them.
RaceRequests == {r \in Requests : r.intent = None /\ r.from_email \in {"jane@x.io", "bob@x.io"}}

RaceResults == {r \in ReplyResults : ~r.success \/ Subscriptable(json_loads(r.response), "intent")}

RaceReads == {r \in Reads : r.existing_ok}

InitRace ==
    /\ api_key = [p \in Providers |-> "key"]
    /\ ctor_ok = [p \in Providers |-> TRUE]
    /\ RegistryInit
    /\ CacheInit
    /\ MailInit

NextRace ==
    \/ \E p \in Pipelines, io \in RaceReads :
           \/ \E request \in RaceRequests : process_email(p, request, TRUE, io)
           \/ \E result \in RaceResults : process_email_resume(p, result, TRUE, io)
    \/ \E payload \in RaceRequests, read_ok \in BOOLEAN : validate_email(payload, read_ok)

SpecRace == InitRace /\ [][NextRace]_vars

\* The lead store with reads that fail: leads are looked up and the outbox
\* grows.
NextFaults ==
    \/ \E addr \in Addresses, io \in Reads : check_lead(addr, io)
    \/ \E email_data \in OutboxEntries, io \in {r \in Reads : r.existing_ok /\ r.new_ok} :
           /\ Len(outbox) < MaxOutbox
           /\ add_to_outbox(email_data, io)

SpecFaults == InitCRM /\ [][NextFaults]_vars

\* The workflow's customer file from its creation by _ensure_crm_file on:
\* addresses are validated, on their own and inside one run of the workflow,
\* with reads of the file that succeed and reads that fail.
NextRegister ==
    \/ \E payload \in Requests, read_ok \in BOOLEAN : validate_email(payload, read_ok)
    \/ \E payload \in RaceRequests : workflow_process_email(payload)
    \/ \E outcome \in {"failed", "json_sales"}, read_ok \in BOOLEAN :
           workflow_parsed(outcome, read_ok)
    \/ \E result \in RaceResults : workflow_replied(result)

SpecRegister == InitOutbox /\ [][NextRegister]_vars

\* The three reply generators side by side: LLMManager.generate_email_reply on
\* the provider chain, ReplyGeneratorAgent.generate_reply and one run of
\* EmailAgent.process_email on the envelopes generate_text returns.
InitReply ==
    /\ api_key = [p \in Providers |-> IF p = PreferenceOrder[1] THEN "key" ELSE "unset"]
    /\ ctor_ok = [p \in Providers |-> TRUE]
    /\ llm_phase = "ready"
    /\ models = InitializeFrom([models |-> <<>>, model_order |-> <<>>], 1).models
    /\ model_order = InitializeFrom([models |-> <<>>, model_order |-> <<>>], 1).model_order
    /\ apm_phase = "new"
    /\ providers = <<>>
    /\ epa_phase = "new"
    /\ epa_provider = None
    /\ call = NoCall
    /\ CacheInit
    /\ email = NoEmail
    /\ intent_call = NoIntentCall
    /\ existing_leads \in {<<>>, <<ExistingJane>>}
    /\ new_leads = <<>>
    /\ outbox = <<>>
    /\ crm_call = NoCrmCall
    /\ pipeline = [p \in Pipelines |-> NoRun]
    /\ reply_call = NoReplyCall
    /\ customers = <<>>
    /\ validation_call = NoValidationCall
    /\ workflow = NoWorkflow
    /\ batch = NoBatch

NextReply ==
    \/ \E sender_name \in SenderNames : BeginCall("generate_email_reply", None, sender_name)
    \/ TryModel
    \/ AllFailed
    \/ \E payload \in {r \in Requests : r.intent = "sales"}, intent \in {"sales", "general"},
          is_new_lead \in BOOLEAN, result \in ReplyResults :
           generate_reply(payload, intent, is_new_lead, result)
    \/ PipelineSteps({1}, {NoFault})

SpecReply == InitReply /\ [][NextReply]_vars

\* The cache alone: it reads no setting, so one environment stands for all.
InitCache ==
    /\ api_key = [p \in Providers |-> "key"]
    /\ ctor_ok = [p \in Providers |-> TRUE]
    /\ RegistryInit
    /\ CacheInit
    /\ MailInit

\* The cache's handlers, with their arguments drawn from these sets.
CacheCalls(keys, values, ttls) ==
    \/ \E key \in keys : get(key)
    \/ \E key \in keys, value \in values, ttl \in ttls : set(key, value, ttl)
    \/ \E key \in keys : delete(key)
    \/ clear
    \/ \E key \in keys : exists(key)
    \/ \E key \in keys, first \in {"v1", None}, ttl \in ttls :
           get_or_set(key, first, RAISE, ttl)
    \/ \E key \in keys, second \in {"v2", RAISE} :
           get_or_set(key, RAISE, second, NoTTL)

NextCache ==
    \/ CacheCalls(Keys, Values, TTLs)
    \/ cleanup_expired_entries
    \/ Tick(MaxTime)

SpecCache == InitCache /\ [][NextCache]_vars

\* Expiry: one key, every value and ttl.
NextCacheTTL ==
    \/ CacheCalls({"k1"}, Values, TTLs)
    \/ cleanup_expired_entries
    \/ Tick(MaxTime)

SpecCacheTTL == InitCache /\ [][NextCacheTTL]_vars

\* Eviction: one key more than the dict holds, entries that do not expire.
NextCacheLRU ==
    \/ CacheCalls(Keys, {"v1"}, {NoTTL})
    \/ cleanup_expired_entries
    \/ Tick(MaxTimeLRU)

SpecCacheLRU == InitCache /\ [][NextCacheLRU]_vars

\* The whole program.
Next == NextRegistry \/ NextCache

Spec == Init /\ [][Next]_vars

-----------------------------------------------------------------------------
(* Claims *)

\* A call of generate_text, directly or through one of its two wrappers.
IsLLMCall == call.comp = "llm" /\ call.op \in LLMOps

Prefix(s, n) == SubSeq(s, 1, n)

\* C1: in generate_text, when the first k candidates of the try-order raise and
\* candidate k+1 returns, the result has success = true and model_used =
\* candidate k+1, and no candidate after k+1 is invoked: while the loop runs,
\* every candidate invoked so far has raised, and the calls made are a prefix of
\* the try-order.
C1_FirstSuccessWins ==
    IsLLMCall =>
        LET k == Len(call.raised_by)
        IN  /\ call.raised_by = Prefix(call.models_to_try, k)
            /\ call.pc = "trying" => call.invoked = call.raised_by /\ call.pos = k + 1
            /\ (call.pc = "done" /\ Len(call.invoked) > k) =>
                   /\ call.result.success
                   /\ call.result.model_used = call.models_to_try[k + 1]
                   /\ call.invoked = Prefix(call.models_to_try, k + 1)

\* Two candidates raised, the third answered, and a fourth was left.
C1_Witness ==
    /\ IsLLMCall
    /\ call.pc = "done"
    /\ Len(call.models_to_try) = 4
    /\ Len(call.raised_by) = 2
    /\ call.result.success
    /\ call.result.model_used = call.models_to_try[3]

\* C2: the try-order is the preferred identifier, when it is registered,
\* followed by the other registered identifiers in model_order order, each
\* registered provider once; a preferred identifier that is not registered is
\* ignored and the try-order is model_order.
C2_TryOrder ==
    IsLLMCall =>
        LET try == call.models_to_try
            pref == call.preferred
        IN  /\ Len(try) = Cardinality(Range(models))
            /\ Range(try) = Range(models)
            /\ IF pref \in Range(models)
               THEN /\ try[1] = pref
                    /\ Tail(try) = SelectSeq(model_order, LAMBDA m : m # pref)
               ELSE try = model_order

\* A registered provider that is not the first of model_order is preferred.
C2_Witness ==
    /\ IsLLMCall
    /\ call.preferred = "google"
    /\ model_order = PreferenceOrder
    /\ call.models_to_try = <<"google", "openai", "groq", "anthropic">>

\* C3: generate_text never raises; when every candidate fails, or the registry
\* is empty (and then no provider is called), it returns success = false with
\* the apology text, no model_used and a non-empty error; it returns success =
\* true exactly when a candidate answered.
C3_FailureEnvelope ==
    /\ (IsLLMCall /\ models = <<>>) => call.invoked = <<>>
    /\ (IsLLMCall /\ call.pc = "done") =>
           /\ ~call.raised
           /\ call.result.success <=>
                  (\E i \in 1..Len(call.invoked) : call.invoked[i] \notin Range(call.raised_by))
           /\ ~call.result.success =>
                  /\ call.result.response = ApologyText
                  /\ call.result.model_used = None
                  /\ call.result.error \notin {None, ""}
                  /\ call.raised_by = call.models_to_try
                  /\ call.invoked = call.models_to_try
           /\ models = <<>> => ~call.result.success

\* All four registered providers were called and raised.
C3_Witness ==
    /\ IsLLMCall
    /\ call.pc = "done"
    /\ Len(call.raised_by) = 4
    /\ ~call.result.success

\* C4: when no provider initializes, every component built on the registry
\* fails at construction, so none exists with an empty registry and no request
\* is served from one.
C4_FailFast ==
    /\ llm_phase = "ready" => models # <<>>
    /\ apm_phase = "ready" => providers # <<>>
    /\ epa_phase = "ready" => providers # <<>>
    /\ (call.op = "process_single_email" /\ call.result.success) => providers # <<>>
    /\ IsLLMCall => models # <<>>

\* C5: once the manager is built, no call of generate_text,
\* generate_email_reply, extract_sender_name, get_available_models or
\* get_model_info changes models or model_order.
C5_RegistryFrame ==
    [][llm_phase = "ready" => (models' = models /\ model_order' = model_order)]_vars

\* A call in which a provider raised has returned, with the registry whole.
C5_Witness ==
    /\ IsLLMCall
    /\ call.pc = "done"
    /\ Len(call.raised_by) >= 1
    /\ model_order = PreferenceOrder
    /\ models = PreferenceOrder

\* A provider registers when its key is set, is not the placeholder, and its
\* client constructor returns.
Registers(p) == api_key[p] = "key" /\ ctor_ok[p]

\* C6: initialization registers exactly the providers that have a usable key and
\* a constructor that returns, in the order openai, groq, google, anthropic; it
\* raises only when none registers; get_available_models lists model_order.
C6_RegistryContents ==
    /\ llm_phase # "new" =>
           /\ model_order = SelectSeq(PreferenceOrder, Registers)
           /\ models = model_order
           /\ llm_phase = "failed" <=> (\A p \in Providers : ~Registers(p))
    /\ (call.comp = "llm" /\ call.op \in {"get_available_models", "get_model_info"}) =>
           call.list = model_order
    /\ (call.comp = "llm" /\ call.op = "get_model_info") => call.pos = Len(model_order)

\* One key is unset, one is the placeholder, one constructor raises, and the
\* manager lists the one provider left.
C6_Witness ==
    /\ call.comp = "llm"
    /\ call.op = "get_available_models"
    /\ api_key["openai"] = "unset"
    /\ api_key["groq"] = "placeholder"
    /\ api_key["google"] = "key" /\ ~ctor_ok["google"]
    /\ call.list = <<"anthropic">>

-----------------------------------------------------------------------------
\* CacheService

\* The key's entry is stored and its expiry has not passed.
Live(c, key) == Has(c, key) /\ now <= EntryOf(c, key).expires_at

\* The entries of c under keys other than key.
Others(c, key) == {c[i] : i \in {j \in 1..Len(c) : c[j].key # key}}

\* A get_or_set call on key.
GetOrSetStep(key) ==
    \E first \in {"v1", None, RAISE}, second \in {"v2", RAISE}, ttl \in TTLs :
        get_or_set(key, first, second, ttl)

\* C7 as stated: after set(key, v, T), for any T, a get(key) that follows at
\* once (the call before it is that set, less than a second ago) returns v;
\* a get(key) issued once the clock is more than T seconds past the last set
\* of key returns None.
C7_RoundTripAnyTTL ==
    [][\A key \in Keys : get(key) =>
          /\ (/\ cache_call.op = "set" /\ cache_call.key = key
              /\ last_set[key].at >= 0
              /\ now - last_set[key].at < TicksPerSecond)
                 => cache_call'.ret = last_set[key].value
          /\ (/\ last_set[key].at >= 0
              /\ now > last_set[key].at + last_set[key].ttl * TicksPerSecond)
                 => cache_call'.ret = None]_vars

\* C7: after set(key, v, T) with T at least one second (or the default), a
\* get(key) that follows at once (the call before it is that set, less than a
\* second ago) returns v; for any T, a get(key) issued once the clock is more
\* than T seconds past the last set of key returns None.
C7_RoundTrip ==
    [][\A key \in Keys : get(key) =>
          /\ (/\ cache_call.op = "set" /\ cache_call.key = key
              /\ last_set[key].at >= 0
              /\ last_set[key].ttl >= 1
              /\ now - last_set[key].at < TicksPerSecond)
                 => cache_call'.ret = last_set[key].value
          /\ (/\ last_set[key].at >= 0
              /\ now > last_set[key].at + last_set[key].ttl * TicksPerSecond)
                 => cache_call'.ret = None]_vars

\* A get that follows set(k1, "v2", 1) within the second has returned "v2"
\* although an older value was set before.
C7_Witness ==
    /\ cache_call.op = "get" /\ cache_call.key = "k1" /\ cache_call.after_set
    /\ cache_call.ret = "v2"
    /\ last_set["k1"].ttl = 1 /\ last_set["k1"].value = "v2"
    /\ now = last_set["k1"].at + 1

\* C8: the dict never holds more than max_size entries, nor a key twice.
C8_SizeBound ==
    /\ Len(cache) <= max_size
    /\ \A i, j \in 1..Len(cache) : cache[i].key = cache[j].key => i = j

\* A set of a key not stored has found the dict full and left it full.
C8_Witness ==
    /\ cache_call.op = "set" /\ cache_call.found = "absent"
    /\ cache_call.size_before = max_size
    /\ Len(cache) = max_size

\* C9: a set of a key not stored, into a dict of max_size entries, removes
\* exactly one entry, one whose last_accessed no other entry's precedes, and
\* keeps every other entry as it was; the new entry is stored.
C9_EvictOldest ==
    [][\A key \in Keys, value \in Values, ttl \in TTLs :
          (Len(cache) = max_size /\ ~Has(cache, key) /\ set(key, value, ttl)) =>
              \E i \in 1..Len(cache) :
                  /\ \A j \in 1..Len(cache) : cache[i].last_accessed <= cache[j].last_accessed
                  /\ Others(cache', key) = Range(cache) \ {cache[i]}
                  /\ Has(cache', key)
                  /\ Len(cache') = max_size]_vars

\* A set has evicted an entry that was inserted after one it kept: the kept
\* entry was read later than the evicted one was last accessed.
C9_Witness ==
    /\ cache_call.op = "set" /\ cache_call.found = "absent"
    /\ cache_call.size_before = max_size
    /\ cache_call.evicted # NoEntry
    /\ \E i \in 1..Len(cache) :
           /\ cache[i].key # cache_call.key
           /\ cache[i].created_at < cache_call.evicted.created_at
           /\ cache[i].last_accessed > cache_call.evicted.last_accessed

\* C10: get on a key that is not stored returns None and changes nothing; on
\* an expired entry it returns None and removes the entry; otherwise it
\* returns the stored value, adds one to the entry's access_count and sets its
\* last_accessed to now.  It touches no other entry.  exists answers True, and
\* get_or_set returns without calling the factory, only for an entry that has
\* not expired, and get_or_set then returns that entry's value.
C10_GetSemantics ==
    [][\A key \in Keys :
          /\ get(key) =>
                /\ Others(cache', key) = Others(cache, key)
                /\ IF ~Has(cache, key)
                   THEN cache_call'.ret = None /\ cache' = cache
                   ELSE IF now > EntryOf(cache, key).expires_at
                   THEN cache_call'.ret = None /\ ~Has(cache', key)
                   ELSE /\ cache_call'.ret = EntryOf(cache, key).value
                        /\ Has(cache', key)
                        /\ EntryOf(cache', key) =
                              [EntryOf(cache, key) EXCEPT
                                  !.access_count = EntryOf(cache, key).access_count + 1,
                                  !.last_accessed = now]
          /\ (exists(key) /\ cache_call'.ret = PyTrue) => Live(cache, key)
          /\ (exists(key) /\ ~Live(cache, key)) => ~Has(cache', key)
          /\ (GetOrSetStep(key) /\ cache_call'.factory_calls = 0) =>
                /\ Live(cache, key)
                /\ cache_call'.ret = EntryOf(cache, key).value]_vars

\* A get has found an expired entry, returned None and removed it.
C10_Witness ==
    /\ cache_call.op = "get" /\ cache_call.found = "expired"
    /\ cache_call.ret = None
    /\ ~Has(cache, cache_call.key)

\* C11: get_or_set on a key whose entry has not expired returns that entry's
\* value without calling the factory; otherwise it calls the factory and, when
\* the factory produces a value, stores it under key with the given ttl and
\* returns it, and a get(key) that follows at once (the call before it is that
\* get_or_set, less than a second ago) returns the same value.
C11_GetOrSet ==
    [][\A key \in Keys :
          /\ \A first \in {"v1", None}, ttl \in TTLs :
                get_or_set(key, first, RAISE, ttl) =>
                    IF Live(cache, key)
                    THEN /\ cache_call'.ret = EntryOf(cache, key).value
                         /\ cache_call'.factory_calls = 0
                    ELSE /\ cache_call'.factory_calls = 1
                         /\ cache_call'.ret = first
                         /\ Has(cache', key)
                         /\ EntryOf(cache', key).value = first
                         /\ EntryOf(cache', key).expires_at =
                                now + EffectiveTTL(ttl) * TicksPerSecond
          /\ (/\ get(key)
              /\ cache_call.op = "get_or_set" /\ cache_call.key = key
              /\ cache_call.factory_calls = 1
              /\ last_set[key].at >= 0
              /\ now - last_set[key].at < TicksPerSecond)
                 => cache_call'.ret = cache_call.ret]_vars

\* C12: a get_or_set whose factory fails raises the factory's failure and
\* leaves no entry under key.
C12_FactoryFailure ==
    [][\A key \in Keys, second \in {"v2", RAISE} :
          (get_or_set(key, RAISE, second, NoTTL) /\ cache_call'.factory_calls > 0) =>
              /\ cache_call'.ret = RAISE
              /\ ~Has(cache', key)]_vars

-----------------------------------------------------------------------------
\* Email helpers

\* The regex fallback on the sample texts (what Python's re gives).
FallbackSamples ==
    /\ extract_sender_name_fallback("From: Jane Doe\nHi, what is your pricing?") = "Jane Doe"
    /\ extract_sender_name_fallback("hello\nfrom:   \"Bob  Ray\" <bob@x.io>\nhelp") = "Bob Ray"
    /\ extract_sender_name_fallback("Sender: Ann Lee\nFrom: J\n") = "Ann Lee"
    /\ extract_sender_name_fallback("Ann Lee <ann@x.io>\nhello") = "Ann Lee"
    /\ extract_sender_name_fallback("From: <j@x.io>\nbob@x.io wrote") = "From:"
    /\ extract_sender_name_fallback("no header here") = None

\* C13: when every provider has failed, extract_sender_name returns what the
\* regex fallback finds in the email text: the name after From: or Sender: or
\* before <email>, None when no pattern matches.
C13_SenderFallback ==
    (call.comp = "llm" /\ call.op = "extract_sender_name" /\ call.pc = "done"
        /\ ~call.result.success)
        => call.ret = extract_sender_name_fallback(email.content)

\* The classification is a keyword fallback: determine_intent, or parse_email
\* when the model call failed or its response is no JSON.
IsKeywordFallback ==
    \/ intent_call.op = "determine_intent"
    \/ intent_call.op = "parse_email" /\ intent_call.outcome \in {"failed", "invalid_json"}

\* The keyword lists of the classifier that was called.
KeywordsUsed == IF intent_call.op = "determine_intent" THEN ValidationKeywords ELSE ParserKeywords

\* The number of the category's keywords that occur in subject + body.
Score(intent) == Hits(ContentLower(email), KeywordsUsed[intent])

\* C14: a keyword fallback returns a category no other category has more
\* keyword hits than, and "general" when no keyword of any category occurs.
C14_MostHits ==
    IsKeywordFallback =>
        IF \A i \in 1..Len(Intents) : Score(Intents[i]) = 0
        THEN intent_call.intent = "general"
        ELSE \A i \in 1..Len(Intents) : Score(intent_call.intent) >= Score(Intents[i])

\* C15 as stated: a keyword fallback on a subject + body that contains
\* "pricing" returns "sales", whatever else the text contains.
C15_PricingAlwaysSales ==
    (IsKeywordFallback /\ Contains(ContentLower(email), "pricing"))
        => intent_call.intent = "sales"

\* C15: on a subject + body that contains "pricing", parse_email's keyword
\* fallback returns "sales" whatever else the text contains, and
\* determine_intent returns "sales" unless another category has more keyword
\* hits than sales.
C15_PricingIsSales ==
    (IsKeywordFallback /\ Contains(ContentLower(email), "pricing"))
        => \/ intent_call.intent = "sales"
           \/ /\ intent_call.op = "determine_intent"
              /\ \E i \in 1..Len(Intents) : Score(Intents[i]) > Score("sales")

\* parse_email's fallback has returned "sales" for a text with "pricing" in
\* which another category has more hits.
C15_Witness ==
    /\ intent_call.op = "parse_email" /\ intent_call.outcome = "failed"
    /\ Contains(ContentLower(email), "pricing")
    /\ Score("support") > Score("sales")
    /\ intent_call.intent = "sales"

\* The reply has a subject and a body, as the prompts ask for.
Shaped(d) == Subscriptable(d, "subject") /\ Subscriptable(d, "body")

\* generate_text failed, or its text is no JSON or JSON of the wrong shape.
ReplyFailure(result) == ~result.success \/ ~Shaped(json_loads(result.response))

\* C16: for every outcome of the provider chain (valid JSON, unparsable or
\* wrongly shaped output, all providers failed) generate_reply,
\* _generate_email_content and generate_email_reply return reply text without
\* raising, and on a failure that text is the hand-written template of the
\* same customer type.
C16_AlwaysAReply ==
    /\ reply_call.op = "generate_reply" =>
           /\ ~reply_call.raised
           /\ Shaped(reply_call.reply)
           /\ ReplyFailure(reply_call.result) =>
                  reply_call.reply = fallback_reply(reply_call.payload, reply_call.intent,
                                                    reply_call.is_new_lead)
    /\ \A p \in Pipelines :
           pipeline[p].source \in {"provider", "fallback"} =>
               /\ Shaped(pipeline[p].content)
               /\ ReplyFailure(pipeline[p].result) =>
                      pipeline[p].content = generate_fallback_email(pipeline[p].request,
                                                                    pipeline[p].is_new_lead)
    /\ IsLLMCall /\ call.op = "generate_email_reply" /\ call.pc = "done" =>
           /\ ~call.raised
           /\ ~call.result.success =>
                  \E is_new_customer \in BOOLEAN :
                      call.ret = generate_fallback_email(
                                     [NoRequest EXCEPT !.name = call.sender_name],
                                     is_new_customer).body

\* Some record of the collection has the address, letter case aside.
InCollection(leads, addr) == \E i \in 1..Len(leads) : Lower(leads[i].email) = Lower(addr)

\* C17: an email whose address is in neither lead collection takes the
\* new-customer prompt/template path, one whose address is in the existing
\* collection (compared case-insensitively) the existing-customer path: in
\* EmailAgent.process_email, whose fallback is the template of that path, and in
\* the workflow's validate_email on its customers file.
C17_PathSelection ==
    [][/\ \A p \in Pipelines :
              pipeline[p].pc = "idle" /\ pipeline'[p].pc # "idle" =>
                  LET addr == pipeline'[p].request.from_email
                  IN  /\ ~InCollection(existing_leads, addr) /\ ~InCollection(new_leads, addr)
                             => /\ pipeline'[p].path = "new_customer"
                                /\ pipeline'[p].is_new_lead
                      /\ InCollection(existing_leads, addr)
                             => /\ pipeline'[p].path = "existing_customer"
                                /\ ~pipeline'[p].is_new_lead
       /\ \A p \in Pipelines :
              pipeline'[p].source = "fallback" =>
                  pipeline'[p].content =
                      IF pipeline'[p].path = "new_customer"
                      THEN NewCustomerTemplate(pipeline'[p].request)
                      ELSE ExistingCustomerTemplate(pipeline'[p].request)
       /\ \A payload \in Requests :
              validate_email(payload, TRUE) =>
                  validation_call'.is_new_lead = ~InCollection(customers, payload.from_email)
      ]_vars

\* An address stored in lower case and written with capitals in the email took
\* the existing-customer path in both pipelines.
C17_Witness ==
    /\ pipeline[1].request.from_email = "Jane@X.io"
    /\ pipeline[1].known = "existing_lead"
    /\ pipeline[1].path = "existing_customer"
    /\ pipeline[1].source = "fallback"
    /\ validation_call.op = "validate_email"
    /\ validation_call.payload.from_email = "Jane@X.io"
    /\ ~validation_call.is_new_lead

\* Coroutine p returns from process_email's try block in this step.
Succeeds(p) == pipeline[p].pc # "done" /\ pipeline'[p].pc = "done" /\ ~pipeline'[p].error

\* C18: every email process_email processes successfully (it returns from its
\* try block; the files can be read and written) adds exactly one entry to the
\* outbox, the one of this email, whether the reply came from a provider, the
\* cache or the fallback template; no other step of the pipeline adds one.
C18_OneOutboxEntry ==
    [][/\ \A p \in Pipelines :
              Succeeds(p) =>
                  /\ Len(outbox') = Len(outbox) + 1
                  /\ SubSeq(outbox', 1, Len(outbox)) = outbox
                  /\ outbox'[Len(outbox')].to = pipeline'[p].request.from_email
                  /\ outbox'[Len(outbox')].subject = pipeline'[p].response.subject
                  /\ outbox'[Len(outbox')].body = pipeline'[p].response.body
                  /\ pipeline'[p].source \in {"provider", "cache", "fallback"}
       /\ (\A p \in Pipelines : ~Succeeds(p)) => outbox' = outbox
      ]_vars

\* Two emails were processed successfully, one answered by a provider and one
\* from the cache, and the outbox has two entries.
C18_Witness ==
    /\ \A p \in Pipelines : pipeline[p].pc = "done" /\ ~pipeline[p].error
    /\ \E p, q \in Pipelines : pipeline[p].source = "provider" /\ pipeline[q].source = "cache"
    /\ Len(outbox) = 2

\* An email answered with the fallback template was processed successfully and
\* is in the outbox.
C18_WitnessFallback ==
    \E p \in Pipelines :
        /\ pipeline[p].pc = "done" /\ ~pipeline[p].error /\ pipeline[p].source = "fallback"
        /\ \E i \in 1..Len(outbox) : outbox[i].body = pipeline[p].response.body

\* C19: the outbox is append-only: after any add_to_outbox call, one whose read
\* of the outbox file fails included, every entry written earlier is still
\* there, unchanged and in its place, and the new entry comes after them.
C19_AppendOnly ==
    [][\A email_data \in OutboxEntries, io \in Reads :
           add_to_outbox(email_data, io) => outbox' = Append(outbox, email_data)]_vars

\* C20: promote_lead on an address found in the new collection (letter case
\* aside) takes one such record out of new and appends it to existing with
\* status "Existing Lead" and an account id, every other record of both
\* collections staying where it is, so that the record is in exactly one
\* collection; on an address not in the new collection it returns False and
\* changes neither collection.
C20_Promote ==
    [][\A addr \in Addresses :
           promote_lead(addr, NoFault) =>
               IF InCollection(new_leads, addr)
               THEN /\ crm_call'.ret = PyTrue
                    /\ \E i \in 1..Len(new_leads) :
                           /\ Lower(new_leads[i].email) = Lower(addr)
                           /\ new_leads' = Pop(new_leads, i)
                           /\ Len(existing_leads') = Len(existing_leads) + 1
                           /\ SubSeq(existing_leads', 1, Len(existing_leads)) = existing_leads
                           /\ LET moved == existing_leads'[Len(existing_leads')]
                              IN  /\ moved.status = "Existing Lead"
                                  /\ moved.account_id # None
                                  /\ moved.id = new_leads[i].id
                                  /\ moved.name = new_leads[i].name
                                  /\ moved.email = new_leads[i].email
                                  /\ moved.intent = new_leads[i].intent
                                  /\ moved.created_at = new_leads[i].created_at
               ELSE /\ crm_call'.ret = PyFalse
                    /\ UNCHANGED <<new_leads, existing_leads>>]_vars

\* A lead written in lower case was promoted under its capitalised address,
\* next to a record of each collection that stayed.
C20_Witness ==
    /\ crm_call.op = "promote_lead"
    /\ crm_call.email = "Jane@X.io"
    /\ crm_call.ret = PyTrue
    /\ Len(existing_leads) = 2
    /\ existing_leads[2].email = "jane@x.io"
    /\ existing_leads[2].status = "Existing Lead"
    /\ Len(new_leads) = 1

\* No two records of the collection have the same email, letter case aside.
UniqueEmails(leads) ==
    \A i, j \in 1..Len(leads) : Lower(leads[i].email) = Lower(leads[j].email) => i = j

\* C21: after any sequence of process_email calls, one after the other or
\* interleaved, no two records of the same lead collection have emails that
\* are equal ignoring case.
C21_UniqueEmail ==
    /\ UniqueEmails(existing_leads)
    /\ UniqueEmails(new_leads)


\* Every occurrence of stage b in the trace comes after an occurrence of a.
Precedes(stages, a, b) ==
    \A j \in 1..Len(stages) : stages[j] = b => \E i \in 1..(j - 1) : stages[i] = a

C23_AlwaysSent ==
    \A p \in Pipelines :
        pipeline[p].pc = "done" =>
            /\ pipeline[p].response # NoResponse
            /\ pipeline[p].response.sent

\* C24: a batch of N emails returns N results, the result at position i being
\* the outcome of input email i whatever the order in which the emails
\* completed; an email whose processing fails has an error marker at its own
\* position, and the other positions hold what their own processing gave.
C24_BatchPositions ==
    batch.pc = "done" =>
        /\ Len(batch.results) = Len(batch.emails)
        /\ \A i \in 1..Len(batch.emails) :
              /\ batch.results[i].success <=> batch.emails[i].kind = "dict"
              /\ batch.mode = "gather" =>
                     /\ batch.results[i] = batch.tasks[i].result
                     /\ batch.emails[i].kind # "dict" => batch.results[i] = SingleEmailError
              /\ batch.mode = "loop" =>
                     /\ batch.results[i].index = i - 1
                     /\ batch.results[i] =
                            EndpointResult(i - 1, batch.emails[i], batch.tasks[i].name_result,
                                           batch.tasks[i].reply_result)

C24_Witness ==
    /\ batch.pc = "done"
    /\ batch.mode = "gather"
    /\ Len(batch.emails) = 3
    /\ batch.emails[2].kind = "str"
    /\ batch.completed = <<2, 3, 1>>
    /\ ~batch.results[2].success
    /\ batch.results[1].success
    /\ batch.results[3].success
    /\ batch.results[1] # batch.results[3]

\* Coroutine p has returned and its lead record is in new_leads.json, while
\* coroutine q, which looked the same address up before p wrote it, is still
\* waiting for the providers.
Racing(p, q) ==
    /\ p # q
    /\ pipeline[p].pc = "done"
    /\ pipeline[p].is_new_lead
    /\ InCollection(new_leads, pipeline[p].request.from_email)
    /\ pipeline[q].pc = "awaiting_llm"
    /\ pipeline[q].is_new_lead
    /\ pipeline[q].request.from_email = pipeline[p].request.from_email

\* q ends, all reads succeeding, and p's record is no longer in the file.
LosesRecordOf(p, q) ==
    /\ \E result \in RaceResults : process_email_resume(q, result, TRUE, NoFault)
    /\ \/ Len(new_leads') <= Len(new_leads)
       \/ SubSeq(new_leads', 1, Len(new_leads)) # new_leads

Front(list) == SubSeq(list, 1, Len(list) - 1)

\* The files a step rewrote are what the step's own reads returned, from the
\* files as they stood at that step, plus one record at the end.
RewritesWhatItRead(io) ==
    /\ new_leads' # new_leads => Front(new_leads') = get_new_leads(io)
    /\ outbox' # outbox => Front(outbox') = get_outbox(io)

C26_ReadFailure ==
    /\ \A io \in Reads :
          /\ ~io.existing_ok => get_existing_leads(io) = <<>>
          /\ ~io.new_ok => get_new_leads(io) = <<>>
          /\ ~io.outbox_ok => get_outbox(io) = <<>>
    /\ crm_call.op = "check_lead" =>
          /\ crm_call.ret \in {"existing_lead", "new_lead", "not_found"}
          /\ crm_call.ret = "existing_lead" => crm_call.io.existing_ok
          /\ crm_call.ret = "new_lead" => crm_call.io.new_ok
          /\ crm_call.ret = "not_found" <=>
                 ~\/ crm_call.io.existing_ok /\ InCollection(existing_leads, crm_call.email)
                  \/ crm_call.io.new_ok /\ InCollection(new_leads, crm_call.email)

C26_Witness ==
    /\ crm_call.op = "check_lead"
    /\ ~crm_call.io.existing_ok
    /\ InCollection(existing_leads, crm_call.email)
    /\ crm_call.ret = "not_found"
    /\ Len(outbox) > 0

\* C27: a get_or_set call invokes the factory at most once, whether the
\* factory succeeds or fails.
C27_FactoryOnce ==
    cache_call.op = "get_or_set" => cache_call.factory_calls <= 1

\* The cache holds an unexpired entry under key.
HoldsUnexpired(key) == Has(cache, key) /\ ~is_expired(EntryOf(cache, key))

\* C28: _generate_email_content writes to the cache only a provider's reply
\* that parsed as JSON, never a fallback template, and when the cache holds an
\* unexpired entry for the key the entry is returned without a provider being
\* invoked.
C28_CacheDiscipline ==
    [][\A p \in Pipelines, send_ok \in BOOLEAN :
          /\ \A request \in Requests :
                (/\ process_email(p, request, send_ok, NoFault)
                 /\ HoldsUnexpired(CacheKey(request,
                                            ~LeadInfo(request.from_email, NoFault).exists)))
                    => /\ pipeline'[p].pc = "done"
                       /\ pipeline'[p].source = "cache"
          /\ \A result \in ReplyResults :
                (/\ process_email_resume(p, result, send_ok, NoFault)
                 /\ \E i \in 1..Len(cache') :
                        \/ ~Has(cache, cache'[i].key)
                        \/ EntryOf(cache, cache'[i].key).value # cache'[i].value)
                    => /\ result.success
                       /\ json_loads(result.response).kind # "error"
                       /\ pipeline'[p].source = "provider"]_vars

\* C29: the customer_type of the outbox entry a process_email call writes
\* equals the customer_type of the EmailResponse it returns, whatever the two
\* collections hold and whatever the letter case of the sender address.
C29_SameCustomerType ==
    [][\A p \in Pipelines :
          (pipeline'[p] # pipeline[p] /\ pipeline'[p].pc = "done" /\ pipeline'[p].logged = 1)
              => /\ Len(outbox') = Len(outbox) + 1
                 /\ outbox'[Len(outbox')].customer_type =
                        pipeline'[p].response.customer_type]_vars

\* No two records of the customer file have the same id.
UniqueIds(list) ==
    \A i, j \in 1..Len(list) : list[i].id = list[j].id => i = j

\* C30: validate_email registers an address once.  A call for an address the
\* customer file does not have appends exactly one record and reports
\* is_new_lead = true with that record's id; a later call for the address, in
\* any letter case, appends nothing and reports is_new_lead = false with the id
\* of the one record of the address; all ids of the file are distinct.  (A
\* call that cannot read the file appends nothing.)
C30_RegisterOnce ==
    [][/\ \A payload \in Requests, read_ok \in BOOLEAN :
            validate_email(payload, read_ok) =>
                IF read_ok /\ ~InCollection(customers, payload.from_email)
                THEN /\ Len(customers') = Len(customers) + 1
                     /\ SubSeq(customers', 1, Len(customers)) = customers
                     /\ customers'[Len(customers')].email = payload.from_email
                     /\ validation_call'.is_new_lead
                     /\ validation_call'.user_id = customers'[Len(customers')].id
                ELSE /\ customers' = customers
                     /\ read_ok =>
                            /\ ~validation_call'.is_new_lead
                            /\ \E i \in 1..Len(customers) :
                                   /\ Lower(customers[i].email) = Lower(payload.from_email)
                                   /\ customers[i].id = validation_call'.user_id
       /\ UniqueIds(customers')
       /\ UniqueEmails(customers')]_vars

C30_Witness ==
    /\ Len(customers) = 2
    /\ customers[2].email = "jane@x.io"
    /\ validation_call.op = "validate_email"
    /\ validation_call.payload.from_email = "Jane@X.io"
    /\ ~validation_call.is_new_lead
    /\ validation_call.user_id = 2
=============================================================================
